---- MODULE Spec2Model ----
(***************************************************************************)
(* GPAClib: analog circuits (constant, addition, product and integration   *)
(* gates over the variable t), their normalization, simplification,        *)
(* validation and finalization, modelled from src/src/GPAC.hpp.            *)
(*                                                                         *)
(* A circuit is a record                                                   *)
(*   gates       name -> gate            (std::map, iterated in key order)  *)
(*   output_gate name of the output      ("" when unset)                    *)
(*   values      name -> value           (init values and computed values)  *)
(*   validation, finalized, int_gates    the attributes of class GPAC       *)
(*   id          the process-wide counter new_gate_id                       *)
(*   err         "ok", or the way the running operation ended the process   *)
(* Values of type T (double) are exact dyadic rationals <<n, e>> = n / 2^e. *)
(***************************************************************************)
EXTENDS Integers, Sequences, FiniteSets, TLC

(* ------------------------------ bounds -------------------------------- *)

\* largest value of new_gate_id at which an operation may still start
MaxId == 6
\* number of public operations applied to the circuit under construction
MaxOps == 3
\* number of loop iterations of normalize() followed inside one call
MaxNormSteps == 8
\* largest coefficient of the polynomials
MaxCoeff == 2
\* largest number of coefficients of the polynomials
MaxLen == 3
\* largest point the circuits are evaluated at
MaxPoint == 3
\* largest number of iterations Iterate is asked for
MaxIter == 3
\* largest degree of the polynomials that are compared coefficient by coefficient
MaxDegree == 64

(* ------------------------------ names --------------------------------- *)

\* The characters (ASCII codes) of the names written by users and builtins.
UserChars ==
     "a"     :> <<97>>
  @@ "b"     :> <<98>>
  @@ "c"     :> <<99>>
  @@ "exp"   :> <<101, 120, 112>>
  @@ "cos"   :> <<99, 111, 115>>
  @@ "sin"   :> <<115, 105, 110>>
  @@ "sin_P" :> <<115, 105, 110, 95, 80>>
  @@ "sin_c" :> <<115, 105, 110, 95, 99>>
  @@ "P1"    :> <<80, 49>>
  @@ "t"     :> <<116>>
  @@ ""      :> <<>>
  @@ "a_4294967295" :> <<97, 95, 52, 50, 57, 52, 57, 54, 55, 50, 57, 53>>
  @@ "a_4294967296" :> <<97, 95, 52, 50, 57, 52, 57, 54, 55, 50, 57, 54>>
  @@ "1"     :> <<49>>
  @@ "ab"    :> <<97, 98>>
  @@ "_"     :> <<95>>
  @@ "_a"    :> <<95, 97>>
  @@ "_b"    :> <<95, 98>>
  @@ "c_a"   :> <<99, 95, 97>>
  @@ "c_b"   :> <<99, 95, 98>>
  @@ "c_1"   :> <<99, 95, 49>>
  @@ "ab_b"  :> <<97, 98, 95, 98>>
  @@ "ab_1"  :> <<97, 98, 95, 49>>
  @@ "c_2"   :> <<99, 95, 50>>
  @@ "c_3"   :> <<99, 95, 51>>
  @@ "ab_2"  :> <<97, 98, 95, 50>>
  @@ "ab_3"  :> <<97, 98, 95, 51>>

RECURSIVE Digits(_)
Digits(k) == IF k < 10 THEN <<48 + k>> ELSE Digits(k \div 10) \o <<48 + (k % 10)>>

\* The counter new_gate_id is an unsigned of 32 bits.  It is held as a machine
\* word holds it: a value u below 2^31 is the integer u, a value u from 2^31 on
\* is the integer u - 2^32 (4294967295 is -1).

\* ++new_gate_id
Inc32(id) == IF id = 2147483647 THEN -2147483647 - 1 ELSE id + 1

\* a < b on unsigned
ULess(a, b) == IF (a < 0) = (b < 0) THEN a < b ELSE b < 0

\* boost::lexical_cast<std::string>(k) of the unsigned k: from 2^31 on, k is
\* 10 * (214748364 + q) + 8 + r with 10 * q + r = k - 2^31
UnsignedString(k) ==
  IF k >= 0 THEN ToString(k)
  ELSE ToString((214748364 + (((k + 2147483647) + 1) \div 10))
                + ((8 + (((k + 2147483647) + 1) % 10)) \div 10))
         \o ToString((8 + (((k + 2147483647) + 1) % 10)) % 10)

\* "_" + boost::lexical_cast<std::string>(k)
FreshName(k) == "_" \o UnsignedString(k)

FreshIds == 0..(MaxId + 16 * MaxNormSteps + 8)

FreshNames == {FreshName(k) : k \in FreshIds}

FreshIdOf == [n \in FreshNames |-> CHOOSE k \in FreshIds : FreshName(k) = n]

AllNames == DOMAIN UserChars \cup FreshNames

KeyOf == UserChars @@ [n \in FreshNames |-> <<95>> \o Digits(FreshIdOf[n])]

RECURSIVE LexLess(_, _)
\* std::string operator< : lexicographic comparison of the characters
LexLess(s, u) ==
  IF u = <<>> THEN FALSE
  ELSE IF s = <<>> THEN TRUE
  ELSE IF Head(s) # Head(u) THEN Head(s) < Head(u)
  ELSE LexLess(Tail(s), Tail(u))

StrLess(x, y) == LexLess(KeyOf[x], KeyOf[y])

StartsWithUnderscore(x) == KeyOf[x] # <<>> /\ Head(KeyOf[x]) = 95

\* the elements of S in increasing order of the strict total order Less(_, _)
SortBy(S, Less(_, _)) ==
  [i \in 1..Cardinality(S) |->
     CHOOSE x \in S : Cardinality({y \in S : Less(y, x)}) = i - 1]

\* iteration order of a std::map keyed by std::string
InOrder(S) == SortBy(S, StrLess)

Range(s) == {s[i] : i \in DOMAIN s}

(* ------------------------------ values -------------------------------- *)

RECURSIVE Pow2(_)
Pow2(e) == IF e = 0 THEN 1 ELSE 2 * Pow2(e - 1)

RECURSIVE DNorm(_)
DNorm(v) == IF v[2] > 0 /\ v[1] % 2 = 0 THEN DNorm(<<v[1] \div 2, v[2] - 1>>) ELSE v

D(n) == <<n, 0>>

DMax(a, b) == IF a > b THEN a ELSE b

DAdd(a, b) ==
  LET e == DMax(a[2], b[2])
  IN  DNorm(<<a[1] * Pow2(e - a[2]) + b[1] * Pow2(e - b[2]), e>>)

DMul(a, b) == DNorm(<<a[1] * b[1], a[2] + b[2]>>)

\* 0.5 * v
DHalf(v) == DNorm(<<v[1], v[2] + 1>>)

(* ------------------------------ gates --------------------------------- *)

ConstantGate(v) == [kind |-> "Const", X |-> "", Y |-> "", c |-> v]
AddGate(x, y)     == [kind |-> "Add",  X |-> x, Y |-> y, c |-> D(0)]
ProductGate(x, y) == [kind |-> "Prod", X |-> x, Y |-> y, c |-> D(0)]
IntGate(x, y)     == [kind |-> "Int",  X |-> x, Y |-> y, c |-> D(0)]

\* AddGate::operator() and ProductGate::operator()
Apply(g, a, b) == IF g.kind = "Add" THEN DAdd(a, b) ELSE DMul(a, b)

Put(f, k, v) == [n \in DOMAIN f \cup {k} |-> IF n = k THEN v ELSE f[n]]
Drop(f, k)   == [n \in DOMAIN f \ {k} |-> f[n]]

NoGates == [n \in {} |-> ConstantGate(D(0))]
NoValues == [n \in {} |-> D(0)]

\* GPAC(name, validation_, block_)
NewCircuit(validation_, id0) ==
  [gates |-> NoGates, output_gate |-> "", values |-> NoValues,
   validation |-> validation_, finalized |-> FALSE, int_gates |-> <<>>,
   id |-> id0, err |-> "ok"]

Fail(c, e) == [c EXCEPT !.err = e]

has(c, n) == n \in DOMAIN c.gates
isAddGate(c, n)      == c.gates[n].kind = "Add"
isProductGate(c, n)  == c.gates[n].kind = "Prod"
isIntGate(c, n)      == c.gates[n].kind = "Int"
isConstantGate(c, n) == c.gates[n].kind = "Const"
isBinaryGate(c, n)   == c.gates[n].kind # "Const"

IntGates(c) == {n \in DOMAIN c.gates : isIntGate(c, n)}

(* ------------------------- circuit container -------------------------- *)

IsDigit(ch) == 48 <= ch /\ ch <= 57

\* one more digit d after the number <<hi, lo>>
LimbsStep(l, d) == <<10 * l[1] + (10 * l[2] + d) \div 65536, (10 * l[2] + d) % 65536>>

RECURSIVE Limbs(_)
\* the number a string of digits writes, as <<hi, lo>> with lo < 65536: the
\* number is 65536 * hi + lo
Limbs(s) ==
  IF s = <<>> THEN <<0, 0>>
  ELSE LimbsStep(Limbs(SubSeq(s, 1, Len(s) - 1)), s[Len(s)] - 48)

\* the unsigned 65536 * l[1] + l[2], below 2^32
Word(l) == IF l[1] >= 32768 THEN (l[1] - 65536) * 65536 + l[2] ELSE l[1] * 65536 + l[2]

\* boost::lexical_cast<unsigned> of a string of digits that fits in 32 bits
DigitsValue(s) == Word(Limbs(s))

RECURSIVE LastNonDigit(_, _)
\* while (i >= 0 && '0' <= name[i] && name[i] <= '9') --i;   (positions from 1)
LastNonDigit(s, i) ==
  IF i = 0 THEN 0 ELSE IF IsDigit(s[i]) THEN LastNonDigit(s, i - 1) ELSE i

\* the number written after position i of s when s[i] is '_', else 0
IdAfter(s, i) ==
  IF i = 0 \/ i >= Len(s) \/ s[i] # 95 THEN 0 ELSE DigitsValue(SubSeq(s, i + 1, Len(s)))

\* the digits after position i of s, when s[i] is '_', write no unsigned of 32 bits
CastFails(s, i) ==
  ~(i = 0 \/ i >= Len(s) \/ s[i] # 95) /\ Limbs(SubSeq(s, i + 1, Len(s)))[1] > 65535

\* what ensureNewGateIdLargeEnough reads after position i of s: boost::
\* lexical_cast<unsigned> fails (it throws bad_lexical_cast), or gives id
EndAfter(s, i) ==
  [fails |-> CastFails(s, i), id |-> IF CastFails(s, i) THEN 0 ELSE IdAfter(s, i)]

\* for every name, what is read at its end
EndsOf(keys) ==
  [n \in DOMAIN keys |-> EndAfter(keys[n], LastNonDigit(keys[n], Len(keys[n])))]

Ends == EndsOf(KeyOf)

\* the number n when the name ends with _<n>, else 0
TrailingId(name) == Ends[name].id

\* boost::lexical_cast<unsigned> throws bad_lexical_cast on the end of the name
TrailingIdOverflows(name) == Ends[name].fails

\* if (id > new_gate_id) new_gate_id = id
RaiseId(c, id) == [c EXCEPT !.id = IF ULess(@, id) THEN id ELSE @]

EnsureId(c, end) ==
  IF end.fails THEN Fail(c, "bad_lexical_cast") ELSE RaiseId(c, end.id)

ensureNewGateIdLargeEnough(c, name) == EnsureId(c, Ends[name])

\* the name getNewGateName() returns next
NextName(c) == FreshName(Inc32(c.id))

\* the error validateGateName reports ("ok" when the name is accepted)
validateGateName(gate_name, forbid_underscore) ==
  IF gate_name = "" THEN "name_error"
  ELSE IF StartsWithUnderscore(gate_name) /\ forbid_underscore THEN "name_error"
  ELSE IF gate_name = "t" THEN "name_error"
  ELSE "ok"

\* gates[gate_name] = g (a gate of that name is overwritten), then
\* ensureNewGateIdLargeEnough(gate_name)
Insert(c, gate_name, g) ==
  ensureNewGateIdLargeEnough([c EXCEPT !.gates = Put(c.gates, gate_name, g)], gate_name)

\* the test of addIntGate: validation && validate && has(y) && isConstantGate(y)
IntConstantError(c, g, validate) ==
  g.kind = "Int" /\ c.validation /\ validate /\ has(c, g.Y) /\ isConstantGate(c, g.Y)

\* the rest of an add*Gate once the name of the gate is settled
addNamed(c, gate_name, g, validate) ==
  IF IntConstantError(c, g, validate) THEN Fail(c, "int_const_error")
  ELSE Insert(c, gate_name, g)

\* the common body of addAddGate, addProductGate, addIntGate, addConstantGate
addGate(c, gate_name, g, validate) ==
  IF c.err # "ok" THEN c
  ELSE IF gate_name = ""
  THEN addNamed([c EXCEPT !.finalized = FALSE, !.id = Inc32(c.id)], NextName(c), g, validate)
  ELSE IF c.validation /\ validate /\ validateGateName(gate_name, TRUE) # "ok"
  THEN Fail([c EXCEPT !.finalized = FALSE], "name_error")
  ELSE addNamed([c EXCEPT !.finalized = FALSE], gate_name, g, validate)

addAddGate(c, gate_name, x, y, validate) == addGate(c, gate_name, AddGate(x, y), validate)
addProductGate(c, gate_name, x, y, validate) ==
  addGate(c, gate_name, ProductGate(x, y), validate)
addIntGate(c, gate_name, x, y, validate) == addGate(c, gate_name, IntGate(x, y), validate)
addConstantGate(c, gate_name, value, validate) ==
  addGate(c, gate_name, ConstantGate(value), validate)

eraseGate(c, gate_name) ==
  IF c.err # "ok" THEN c
  ELSE [c EXCEPT !.gates = [n \in DOMAIN c.gates \ {gate_name} |-> c.gates[n]]]

\* the name an input becomes under the renaming table m
Renamed(m, n) == IF n \in DOMAIN m THEN m[n] ELSE n

\* rewrite the inputs of every binary gate through the table m
RenameInputsBy(gs, m) ==
  [n \in DOMAIN gs |->
     IF gs[n].kind = "Const" THEN gs[n]
     ELSE [gs[n] EXCEPT !.X = Renamed(m, gs[n].X), !.Y = Renamed(m, gs[n].Y)]]

renameInputs(c, gate_name, new_name) ==
  IF c.err # "ok" THEN c
  ELSE [c EXCEPT !.gates = RenameInputsBy(c.gates, (gate_name :> new_name))]

\* gate_name is a gate of the circuit
renameGate(c, gate_name, new_name) ==
  IF c.err # "ok" THEN c
  ELSE
  LET g == c.gates[gate_name]
      gs == Drop(Put(c.gates, new_name, g), gate_name)
      vs == IF gate_name \in DOMAIN c.values
            THEN Put(Drop(c.values, gate_name), new_name, c.values[gate_name])
            ELSE c.values
  IN  [c EXCEPT !.gates = gs, !.values = vs,
                !.output_gate = IF gate_name = c.output_gate THEN new_name
                                ELSE c.output_gate]

setOutput(c, output) == IF c.err # "ok" THEN c ELSE [c EXCEPT !.output_gate = output]

setInitValue(c, gate_name, value) ==
  IF c.err # "ok" THEN c
  ELSE IF ~has(c, gate_name) THEN Fail(c, "out_of_range")
  ELSE IF ~isIntGate(c, gate_name) THEN c
  ELSE LET old == IF gate_name \in DOMAIN c.values THEN c.values[gate_name] ELSE D(0)
       IN  [c EXCEPT !.finalized = IF old # value THEN FALSE ELSE c.finalized,
                     !.values = Put(c.values, gate_name, value)]

importValues(c, v) ==
  IF c.err # "ok" THEN c
  ELSE [c EXCEPT !.values =
          [n \in DOMAIN c.values \cup {k \in DOMAIN v : has(c, k)} |->
             IF n \in DOMAIN v /\ has(c, n) THEN v[n] ELSE c.values[n]]]

RECURSIVE copyGates(_, _, _, _)
\* the loop of copyInto over the gates order[i..] of circuit
copyGates(c, circuit, order, validate) ==
  IF order = <<>> \/ c.err # "ok" THEN c
  ELSE
  LET g == Head(order)
      c1 == addGate(c, g, circuit.gates[g], validate)
      c2 == IF isIntGate(circuit, g) /\ g \in DOMAIN circuit.values
            THEN setInitValue(c1, g, circuit.values[g]) ELSE c1
  IN  copyGates(c2, circuit, Tail(order), validate)

copyInto(c, circuit, validate) ==
  copyGates(c, circuit, InOrder(DOMAIN circuit.gates), validate)

\* GPAC(const GPAC &circuit), with the counter at id0
Copy(circuit, id0) ==
  LET c == copyInto(NewCircuit(circuit.validation, id0), circuit, FALSE)
  IN  [c EXCEPT !.output_gate = circuit.output_gate, !.finalized = FALSE]

\* operator=(const GPAC &circuit) on c: the gates are cleared, the values and the
\* list of integration gates are not
Assign(c, circuit) ==
  IF circuit.err # "ok" THEN circuit
  ELSE LET c1 == copyInto([c EXCEPT !.gates = NoGates, !.id = circuit.id, !.err = "ok"],
                          circuit, FALSE)
       IN  [c1 EXCEPT !.output_gate = circuit.output_gate,
                      !.validation = circuit.validation, !.finalized = FALSE]


(* ----------------------- constant sub-expressions --------------------- *)

RECURSIVE isCombOn(_, _, _)
\* isCombinationConstantGates called on gate_name while the calls on `path` are
\* active: "true", "false", "out_of_range" (gates.at throws) or "stack_overflow"
\* (the recursion re-enters a gate of `path` and so never ends)
isCombOn(c, gate_name, path) ==
  IF gate_name = "t" THEN "false"
  ELSE IF ~has(c, gate_name) THEN "out_of_range"
  ELSE IF isIntGate(c, gate_name) THEN "false"
  ELSE IF isConstantGate(c, gate_name) THEN "true"
  ELSE IF gate_name \in path THEN "stack_overflow"
  ELSE LET rx == isCombOn(c, c.gates[gate_name].X, path \cup {gate_name})
       IN  IF rx # "true" THEN rx
           ELSE isCombOn(c, c.gates[gate_name].Y, path \cup {gate_name})

isCombinationConstantGates(c, gate_name) == isCombOn(c, gate_name, {})

RECURSIVE valueCombinationConstantGates(_, _)
\* gate_name is a combination of constant gates
valueCombinationConstantGates(c, gate_name) ==
  IF isConstantGate(c, gate_name) THEN c.gates[gate_name].c
  ELSE Apply(c.gates[gate_name],
             valueCombinationConstantGates(c, c.gates[gate_name].X),
             valueCombinationConstantGates(c, c.gates[gate_name].Y))

(* --------------------------- value propagation ------------------------ *)

RECURSIVE PropagatePass(_, _, _)
\* one sweep of the propagation loop over the gates order[..]
PropagatePass(gs, vals, order) ==
  IF order = <<>> THEN vals
  ELSE LET n == Head(order)
           g == gs[n]
           v1 == IF n \notin DOMAIN vals /\ g.kind \in {"Add", "Prod"}
                    /\ g.X \in DOMAIN vals /\ g.Y \in DOMAIN vals
                 THEN Put(vals, n, Apply(g, vals[g.X], vals[g.Y]))
                 ELSE vals
       IN  PropagatePass(gs, v1, Tail(order))

RECURSIVE Propagate(_, _)
\* while (changed) ...
Propagate(gs, vals) ==
  LET v1 == PropagatePass(gs, vals, InOrder(DOMAIN gs))
  IN  IF v1 = vals THEN vals ELSE Propagate(gs, v1)

\* the table copy_values of computeValue(t_0) at the end of the propagation
computeValueTable(c, t_0) ==
  LET kept == {n \in DOMAIN c.values :
                 ~(has(c, n) /\ ~isIntGate(c, n) /\ ~isConstantGate(c, n))}
      consts == {n \in DOMAIN c.gates : isConstantGate(c, n)}
      start == [n \in kept \cup consts \cup {"t"} |->
                  IF n = "t" THEN t_0
                  ELSE IF n \in consts THEN c.gates[n].c
                  ELSE c.values[n]]
  IN  Propagate(c.gates, start)

\* computeValue(t_0): [ok |-> FALSE] when copy_values.at(output_gate) throws
computeValue(c, t_0) ==
  LET tab == computeValueTable(c, t_0)
  IN  IF c.output_gate \in DOMAIN tab THEN [ok |-> TRUE, v |-> tab[c.output_gate]]
      ELSE [ok |-> FALSE, v |-> D(0)]


(* ------------------------------ normalize ----------------------------- *)

\* the second input of x is an integration gate whose second input is t
YIsNormalizedInt(c, x) ==
  isIntGate(c, c.gates[x].Y) /\ c.gates[c.gates[x].Y].Y = "t"

\* CompareIntGate::operator()(x, y): "true", "false", or "out_of_range" when a
\* second input names no gate (gates.at throws)
CompareIntGate(c, x, y) ==
  IF ~has(c, c.gates[x].Y) THEN "out_of_range"
  ELSE IF YIsNormalizedInt(c, x) THEN "false"
  ELSE IF ~has(c, c.gates[y].Y) THEN "out_of_range"
  ELSE IF YIsNormalizedInt(c, y) THEN "true"
  ELSE IF isProductGate(c, c.gates[x].Y) THEN "false"
  ELSE IF isProductGate(c, c.gates[y].Y) THEN "true"
  ELSE IF isAddGate(c, c.gates[x].Y) THEN "false"
  ELSE IF isAddGate(c, c.gates[y].Y) THEN "true"
  ELSE IF StrLess(y, x) THEN "true" ELSE "false"

\* a heap is [q |-> the vector of the priority queue, ok |-> no comparison threw]
RECURSIVE SiftUp(_, _, _, _, _)
\* std::__push_heap(first, holeIndex, topIndex, value, comp), indices from 0
SiftUp(c, q, hole, top, value) ==
  IF hole > top
  THEN LET parent == (hole - 1) \div 2
           r == CompareIntGate(c, q[parent + 1], value)
       IN  IF r = "out_of_range" THEN [q |-> q, ok |-> FALSE]
           ELSE IF r = "true"
           THEN SiftUp(c, [q EXCEPT ![hole + 1] = q[parent + 1]], parent, top, value)
           ELSE [q |-> [q EXCEPT ![hole + 1] = value], ok |-> TRUE]
  ELSE [q |-> [q EXCEPT ![hole + 1] = value], ok |-> TRUE]

\* priority_queue::push: push_back, then std::push_heap
PushHeap(c, h, x) ==
  IF ~h.ok THEN h
  ELSE SiftUp(c, Append(h.q, x), Len(h.q), 0, x)

RECURSIVE SiftDown(_, _, _, _, _)
\* the loop of std::__adjust_heap(first, holeIndex, len, value, comp)
SiftDown(c, q, hole, len, value) ==
  IF hole < (len - 1) \div 2
  THEN LET right == 2 * (hole + 1)
           r == CompareIntGate(c, q[right + 1], q[right])
       IN  IF r = "out_of_range" THEN [q |-> q, ok |-> FALSE]
           ELSE LET child == IF r = "true" THEN right - 1 ELSE right
                IN  SiftDown(c, [q EXCEPT ![hole + 1] = q[child + 1]], child, len, value)
  ELSE IF len % 2 = 0 /\ hole = (len - 2) \div 2
  THEN SiftUp(c, [q EXCEPT ![hole + 1] = q[2 * (hole + 1)]], 2 * (hole + 1) - 1, 0, value)
  ELSE SiftUp(c, q, hole, 0, value)

\* priority_queue::pop: std::pop_heap, then pop_back
\* pop_back on the heap r
PopBack(r) == [q |-> SubSeq(r.q, 1, Len(r.q) - 1), ok |-> r.ok]

PopHeap(c, h) ==
  IF ~h.ok THEN h
  ELSE IF Len(h.q) = 1 THEN [q |-> <<>>, ok |-> TRUE]
  ELSE PopBack(SiftDown(c, h.q, 0, Len(h.q) - 1, h.q[Len(h.q)]))

RECURSIVE PushAll(_, _, _)
PushAll(c, h, names) ==
  IF names = <<>> THEN h ELSE PushAll(c, PushHeap(c, h, Head(names)), Tail(names))

\* the integration gates normalize() has to treat, in gate order
ProblemIntGates(c) ==
  SelectSeq(InOrder(DOMAIN c.gates), LAMBDA n : isIntGate(c, n) /\ c.gates[n].Y # "t")

\* the state of normalize() when it enters its while loop
NormalizeStart(c) ==
  LET h == PushAll(c, [q |-> <<>>, ok |-> TRUE], ProblemIntGates(c))
  IN  [c |-> IF h.ok THEN c ELSE Fail(c, "out_of_range"), q |-> h.q]

\* push the names of `names` whose second input is not t
PushPending(c, h, names) ==
  PushAll(c, h, SelectSeq(names, LAMBDA n : c.gates[n].Y # "t"))

\* the loop state after the pushes h of one iteration on circuit c
AfterPush(c, h) == [c |-> IF h.ok THEN c ELSE Fail(c, "out_of_range"), q |-> h.q]

SetXY(c, n, x, y) == [c EXCEPT !.gates[n].X = x, !.gates[n].Y = y]

\* guess_init_value = false: the gate i is given no init value
NoGuess(c, i, gate_name) == c

\* init value propagation: setInitValue(i, 0.5 * values[gate_name]) when it exists
GuessInit(c, i, gate_name) ==
  IF gate_name \in DOMAIN c.values THEN setInitValue(c, i, DHalf(c.values[gate_name]))
  ELSE c

\* gate->X() and gate->Y() of the binary gate n
XOf(c, n) == c.gates[n].X
YOf(c, n) == c.gates[n].Y

SetId(c, id) == [c EXCEPT !.id = id]

\* the loop state once gate_name is pushed again (when its second input is not t)
Repush(c, h, gate_name) == AfterPush(c, PushPending(c, h, <<gate_name>>))

\* addIntGate(i, x, y, false), the guess of its init value and its push, on the
\* pair s = [c, h] of the circuit and of the heap
AddPendingInt(s, i, x, y, gate_name) ==
  [c |-> GuessInit(addIntGate(s.c, i, x, y, FALSE), i, gate_name),
   h |-> PushPending(GuessInit(addIntGate(s.c, i, x, y, FALSE), i, gate_name), s.h, <<i>>)]

\* gates[gate_name].reset(new AddGate(i1, i2)) at the end of a split
SplitEnd(s, gate_name, i1, i2) ==
  AfterPush([s.c EXCEPT !.gates[gate_name] = AddGate(i1, i2)], s.h)

\* Case 1: the second input is an integration gate with second input t
NormalizeCase1(c, h, gate_name) ==
  [c |-> SetXY(addProductGate(SetId(c, c.id + 1), NextName(c),
                              XOf(c, YOf(c, gate_name)), XOf(c, gate_name), FALSE),
               gate_name, NextName(c), "t"),
   q |-> h.q]

\* Case 2, first branch, with the constant factor c_gate
Case2Constant(c, h, gate_name, c_gate, not_c_gate) ==
  Repush(SetXY(addProductGate(SetId(c, c.id + 1), NextName(c), c_gate,
                              XOf(c, gate_name), FALSE),
               gate_name, NextName(c), not_c_gate),
         h, gate_name)

\* Case 2, first branch: the second input is a product with a constant factor
NormalizeCase2Const(c, h, gate_name, cu, cv) ==
  IF cv = "true"
  THEN Case2Constant(c, h, gate_name, YOf(c, YOf(c, gate_name)), XOf(c, YOf(c, gate_name)))
  ELSE Case2Constant(c, h, gate_name, XOf(c, YOf(c, gate_name)), YOf(c, YOf(c, gate_name)))

\* Case 2, second branch, on the second input u * v and the first input w
Case2Split(c, h, gate_name, u, v, w) ==
  SplitEnd(
    AddPendingInt(
      AddPendingInt(
        [c |-> SetId(addProductGate(addProductGate(SetId(c, c.id + 2),
                                                   FreshName(c.id + 1), u, w, FALSE),
                                    FreshName(c.id + 2), w, v, FALSE),
                     c.id + 4),
         h |-> h],
        FreshName(c.id + 3), FreshName(c.id + 1), v, gate_name),
      FreshName(c.id + 4), FreshName(c.id + 2), u, gate_name),
    gate_name, FreshName(c.id + 3), FreshName(c.id + 4))

\* Case 2, second branch: d(uv) = u dv + v du
NormalizeCase2Split(c, h, gate_name) ==
  Case2Split(c, h, gate_name, XOf(c, YOf(c, gate_name)), YOf(c, YOf(c, gate_name)),
             XOf(c, gate_name))

\* Case 3, u + c or c + v: the constant is ignored
NormalizeCase3Const(c, h, gate_name, other) ==
  Repush([c EXCEPT !.gates[gate_name].Y = other], h, gate_name)

\* Case 3, last branch, on the second input u + v and the first input w
Case3Split(c, h, gate_name, u, v, w) ==
  SplitEnd(
    AddPendingInt(
      AddPendingInt([c |-> SetId(c, c.id + 2), h |-> h],
                    FreshName(c.id + 1), w, u, gate_name),
      FreshName(c.id + 2), w, v, gate_name),
    gate_name, FreshName(c.id + 1), FreshName(c.id + 2))

\* Case 3, last branch: d(u + v) = du + dv
NormalizeCase3Split(c, h, gate_name) ==
  Case3Split(c, h, gate_name, XOf(c, YOf(c, gate_name)), YOf(c, YOf(c, gate_name)),
             XOf(c, gate_name))

\* the loop ends the process with the error e
NormalizeFail(c, h, e) == [c |-> Fail(c, e), q |-> h.q]

\* Case 2 with cu, cv what isCombinationConstantGates answers on u and on v
NormalizeCase2(c, h, gate_name, cu, cv) ==
  IF cu \notin {"true", "false"} THEN NormalizeFail(c, h, cu)
  ELSE IF cv \notin {"true", "false"} THEN NormalizeFail(c, h, cv)
  ELSE IF cu = "true" \/ cv = "true" THEN NormalizeCase2Const(c, h, gate_name, cu, cv)
  ELSE NormalizeCase2Split(c, h, gate_name)

\* Case 3: isCombinationConstantGates(v) is called only when u is not constant
NormalizeCase3(c, h, gate_name, cu, cv) ==
  IF cu \notin {"true", "false"} THEN NormalizeFail(c, h, cu)
  ELSE IF cu = "true" THEN NormalizeCase3Const(c, h, gate_name, YOf(c, YOf(c, gate_name)))
  ELSE IF cv \notin {"true", "false"} THEN NormalizeFail(c, h, cv)
  ELSE IF cv = "true" THEN NormalizeCase3Const(c, h, gate_name, XOf(c, YOf(c, gate_name)))
  ELSE NormalizeCase3Split(c, h, gate_name)

\* the body of the while loop on gate_name, popped from the queue that is now h
NormalizeGate(c, h, gate_name) ==
  IF ~h.ok \/ ~has(c, YOf(c, gate_name)) THEN NormalizeFail(c, h, "out_of_range")
  ELSE IF YIsNormalizedInt(c, gate_name) THEN NormalizeCase1(c, h, gate_name)
  ELSE IF isProductGate(c, YOf(c, gate_name))
  THEN NormalizeCase2(c, h, gate_name,
                      isCombinationConstantGates(c, XOf(c, YOf(c, gate_name))),
                      isCombinationConstantGates(c, YOf(c, YOf(c, gate_name))))
  ELSE IF isAddGate(c, YOf(c, gate_name))
  THEN NormalizeCase3(c, h, gate_name,
                      isCombinationConstantGates(c, XOf(c, YOf(c, gate_name))),
                      isCombinationConstantGates(c, YOf(c, YOf(c, gate_name))))
  ELSE [c |-> Fail(c, "not_normalizable"), q |-> <<>>]

\* one iteration of the while loop of normalize(): s = [c, q], q not empty
NormalizeStep(s) == NormalizeGate(s.c, PopHeap(s.c, [q |-> s.q, ok |-> TRUE]), s.q[1])

RECURSIVE NormalizeLoop(_, _)
\* the while loop, followed for at most `fuel` iterations ("diverge": still
\* running after them)
NormalizeLoop(s, fuel) ==
  IF s.c.err # "ok" \/ s.q = <<>> THEN s.c
  ELSE IF fuel = 0 THEN Fail(s.c, "diverge")
  ELSE NormalizeLoop(NormalizeStep(s), fuel - 1)

normalize(c) ==
  IF c.err # "ok" \/ c.finalized THEN c
  ELSE NormalizeLoop(NormalizeStart(c), MaxNormSteps)


(* ------------------------------ validate ------------------------------ *)

\* the error validate() reports at the binary gate n ("ok" when it passes)
ValidateGate(c, n) ==
  IF ~c.validation /\ validateGateName(n, FALSE) # "ok" THEN "name_error"
  ELSE IF (XOf(c, n) # "t" /\ ~has(c, XOf(c, n))) \/ (YOf(c, n) # "t" /\ ~has(c, YOf(c, n)))
  THEN "invalid_input"
  ELSE IF ~c.validation /\ isIntGate(c, n) /\ YOf(c, n) # "t" /\ isConstantGate(c, YOf(c, n))
  THEN "int_const_error"
  ELSE IF isIntGate(c, n) /\ YOf(c, n) # "t" THEN "not_normalized"
  ELSE "ok"

\* the first element of the sequence `order` that satisfies P, "" when none does
HeadOr(hits) == IF hits = <<>> THEN "" ELSE Head(hits)

FirstWhere(order, P(_)) == HeadOr(SelectSeq(order, P))

\* validate() when bad is the first gate its loop rejects ("" when none)
ValidateFrom(c, bad) ==
  IF bad # "" THEN Fail(c, ValidateGate(c, bad))
  ELSE IF c.output_gate = "" THEN Fail(c, "no_output")
  ELSE IF c.output_gate # "t" /\ ~has(c, c.output_gate) THEN Fail(c, "invalid_output")
  ELSE c

validate(c) ==
  IF c.err # "ok" \/ c.finalized THEN c
  ELSE ValidateFrom(c, FirstWhere(InOrder(DOMAIN c.gates),
                                  LAMBDA n : isBinaryGate(c, n) /\ ValidateGate(c, n) # "ok"))


(* ------------------------------ simplify ------------------------------ *)

RECURSIVE FoldConstants(_, _)
\* replace the gates that are combinations of constants by constant gates
FoldConstants(c, order) ==
  IF order = <<>> \/ c.err # "ok" THEN c
  ELSE IF isCombinationConstantGates(c, Head(order)) \notin {"true", "false"}
  THEN Fail(c, isCombinationConstantGates(c, Head(order)))
  ELSE IF isCombinationConstantGates(c, Head(order)) = "true"
  THEN FoldConstants(
         [c EXCEPT !.gates[Head(order)] =
                     ConstantGate(valueCombinationConstantGates(c, Head(order)))],
         Tail(order))
  ELSE FoldConstants(c, Tail(order))

\* the circuit with its gates and their inputs as they were given
KeepInputs(c) == c

RECURSIVE Linked(_, _)
\* the gates findUselessGates removes from the set: those linked to `seen`
Linked(c, seen) ==
  LET more == {n \in DOMAIN c.gates :
                 \E m \in seen : isBinaryGate(c, m) /\ n \in {c.gates[m].X, c.gates[m].Y}}
  IN  IF more \subseteq seen THEN seen ELSE Linked(c, seen \cup more)

\* "Delete all gates that are not linked to the output"
EraseUseless(c) ==
  [c EXCEPT !.gates = [n \in IF has(c, c.output_gate) THEN Linked(c, {c.output_gate})
                             ELSE {} |-> c.gates[n]]]

\* sort the inputs of addition and product gates
SortInputs(c) ==
  [c EXCEPT !.gates =
     [n \in DOMAIN c.gates |->
        LET g == c.gates[n]
        IN  IF g.kind \in {"Add", "Prod"} /\ StrLess(g.Y, g.X)
            THEN [g EXCEPT !.X = g.Y, !.Y = g.X] ELSE g]]

\* PreferUserDefinedNames::operator()
PreferUserDefinedNames(x, y) ==
  IF y = "" THEN FALSE
  ELSE IF x = "" THEN TRUE
  ELSE IF ~StartsWithUnderscore(x) /\ StartsWithUnderscore(y) THEN TRUE
  ELSE IF StartsWithUnderscore(x) /\ ~StartsWithUnderscore(y) THEN FALSE
  ELSE StrLess(x, y)

\* the names of the gates of a kind, sorted with PreferUserDefinedNames
NamesOfKind(c, kind) ==
  SortBy({n \in DOMAIN c.gates : c.gates[n].kind = kind}, PreferUserDefinedNames)

\* delete duplicate constants: every constant is replaced by the first constant
\* of constant_names with its value
\* the entries of the table new_names that name another gate
Losers(nn) == {n \in DOMAIN nn : nn[n] # n}

\* the constants are renamed through the table new_names
RenameConstants(c, new_names) ==
  [c EXCEPT !.output_gate = Renamed(new_names, c.output_gate),
            !.gates = RenameInputsBy([n \in DOMAIN c.gates \ Losers(new_names) |-> c.gates[n]],
                                     new_names)]

\* the constant each constant of constant_names is replaced by
FirstEqualConstant(c, constant_names) ==
  [n \in Range(constant_names) |->
     FirstWhere(constant_names, LAMBDA m : c.gates[m].c = c.gates[n].c)]

\* delete duplicate constants: every constant is replaced by the first constant
\* of constant_names with its value
MergeConstants(c) == RenameConstants(c, FirstEqualConstant(c, NamesOfKind(c, "Const")))

\* the two gates have the same inputs
SameInputs(c, a, b) ==
  /\ c.gates[a].X = c.gates[b].X
  /\ c.gates[a].Y = c.gates[b].Y

\* the test that merges two gates of the same vector of names: the same inputs
\* and, for integration gates, the same initial value
SameGate(c, a, b) ==
  /\ SameInputs(c, a, b)
  /\ isIntGate(c, a) =>
       /\ a \in DOMAIN c.values
       /\ b \in DOMAIN c.values
       /\ c.values[a] = c.values[b]

RECURSIVE PairScan(_, _, _, _, _)
\* the double loop over names[i], names[j] (j > i); r = [nn, changed]
PairScan(c, r, names, i, j) ==
  IF i > Len(names) THEN r
  ELSE IF names[i] \notin DOMAIN r.nn \/ j > Len(names)
  THEN PairScan(c, r, names, i + 1, i + 2)
  ELSE IF names[j] \in DOMAIN r.nn /\ SameGate(c, names[i], names[j])
  THEN PairScan(c, [nn |-> [r.nn EXCEPT ![names[j]] = r.nn[names[i]]], changed |-> TRUE],
                names, i, j + 1)
  ELSE PairScan(c, r, names, i, j + 1)

\* "Determine all equal gates": v holds the three vectors of names
FindEqualGates(c, nn, v) ==
  PairScan(c,
           PairScan(c,
                    PairScan(c, [nn |-> nn, changed |-> FALSE], v.addition_names, 1, 2),
                    v.product_names, 1, 2),
           v.integration_names, 1, 2)

\* the deletion loop having erased the entries S of new_names
DeleteMerged(c, nn, S) ==
  [c |-> [c EXCEPT !.output_gate = IF c.output_gate \in S THEN nn[c.output_gate]
                                   ELSE c.output_gate,
                   !.gates = [n \in DOMAIN c.gates \ S |-> c.gates[n]]],
   nn |-> [n \in DOMAIN nn \ S |-> nn[n]]]

\* A loop that erases the element its iterator is on and then increments the
\* iterator has undefined behaviour from the first erasure on: the first of
\* `todo` is erased, and then the build may erase any of the others, or crash.
ErasedSets(todo) ==
  IF todo = {} THEN {{}} ELSE {S \in SUBSET todo : InOrder(todo)[1] \in S}

RECURSIVE RemoveUnused(_)
\* "Now delete useless gates (gates with output not used)": the outcomes
\* the gates that are neither the output nor an input of a gate
Unused(c) ==
  DOMAIN c.gates \
    ({c.output_gate} \cup
     UNION {{c.gates[n].X, c.gates[n].Y} : n \in {m \in DOMAIN c.gates : isBinaryGate(c, m)}})

RemoveUnused(c) ==
  IF Unused(c) = {} THEN {c}
  ELSE {Fail(c, "crash")} \cup
       UNION {RemoveUnused([c EXCEPT !.gates = [n \in DOMAIN c.gates \ S |-> c.gates[n]]])
                : S \in ErasedSets(Unused(c))}

RECURSIVE MergeLoop(_, _, _)
RECURSIVE MergeFound(_, _, _)
\* one iteration of the do-while loop after its search has answered r
MergeFound(c, r, v) ==
  IF ~r.changed THEN RemoveUnused(c)
  ELSE {Fail([c EXCEPT !.gates = RenameInputsBy(c.gates, r.nn)], "crash")} \cup
       UNION {MergeLoop(d.c, d.nn, v) :
                d \in {DeleteMerged([c EXCEPT !.gates = RenameInputsBy(c.gates, r.nn)],
                                    r.nn, S) : S \in ErasedSets(Losers(r.nn))}}

\* "Recursively delete duplicate product, addition and integration gates"
MergeLoop(c, nn, v) == MergeFound(c, FindEqualGates(c, nn, v), v)

\* the vectors addition_names, product_names, integration_names
NameVectors(c) ==
  [addition_names |-> NamesOfKind(c, "Add"),
   product_names |-> NamesOfKind(c, "Prod"),
   integration_names |-> NamesOfKind(c, "Int")]

\* new_names[g] = g for every addition, product and integration gate
OwnNames(c) == [n \in {m \in DOMAIN c.gates : isBinaryGate(c, m)} |-> n]

\* simplify() from the sort of the inputs on
SimplifySorted(c) == MergeLoop(MergeConstants(c), OwnNames(c), NameVectors(c))

\* simplify() after the constants are folded
SimplifyFolded(c) ==
  IF c.err # "ok" THEN {c} ELSE SimplifySorted(SortInputs(EraseUseless(c)))

\* simplify(): the set of the states it can leave the circuit in
simplify(c) ==
  IF c.err # "ok" \/ c.finalized THEN {c}
  ELSE SimplifyFolded(FoldConstants(c, InOrder(DOMAIN c.gates)))

(* ------------------------------ finalize ------------------------------ *)

\* the end of finalize() without int_gates.clear() and without finalized = true
FinalizeUnflagged(c) ==
  IF c.err # "ok" THEN c
  ELSE [c EXCEPT
          !.values = [n \in {k \in DOMAIN c.values : ~(has(c, k) /\ ~isIntGate(c, k))}
                        |-> c.values[n]],
          !.int_gates = c.int_gates \o SelectSeq(InOrder(DOMAIN c.gates),
                                                 LAMBDA n : isIntGate(c, n))]

\* finalize() after validate() has left the circuit c
FinalizeValidated(c) ==
  IF c.err # "ok" THEN c
  ELSE IF \E n \in DOMAIN c.gates :
            isIntGate(c, n) /\ c.gates[n].Y = "t" /\ n \notin DOMAIN c.values
  THEN Fail(c, "no_init_value")
  ELSE [c EXCEPT
          !.values = [n \in {k \in DOMAIN c.values : ~(has(c, k) /\ ~isIntGate(c, k))}
                        |-> c.values[n]],
          !.int_gates = SelectSeq(InOrder(DOMAIN c.gates), LAMBDA n : isIntGate(c, n)),
          !.finalized = TRUE]

\* finalize() after simplify() has left the circuit c
FinalizeTail(c) == FinalizeValidated(validate(c))

\* finalize() after normalize() has left the circuit c
FinalizeNormalized(c, simplification) ==
  IF c.err # "ok" THEN {c}
  ELSE {FinalizeTail(c2) : c2 \in IF simplification THEN simplify(c) ELSE {c}}

\* finalize(simplification): the set of the states it can leave the circuit in
finalize(c, simplification) ==
  IF c.err # "ok" \/ c.finalized THEN {c} ELSE FinalizeNormalized(normalize(c), simplification)


(* ------------------------------ composers ----------------------------- *)

RECURSIVE MoveGates(_, _, _)
\* "replace gates with renamed ones": gates and values move to their new names
MoveGates(c, shared, new_names) ==
  IF shared = <<>> THEN c
  ELSE MoveGates(renameGate([c EXCEPT !.output_gate = ""], Head(shared),
                            new_names[Head(shared)]),
                 Tail(shared), new_names)

\* the table new_names: the k-th shared name gets the k-th fresh name
NewNames(c, shared) ==
  [n \in Range(shared) |-> FreshName(c.id + (CHOOSE i \in DOMAIN shared : shared[i] = n))]

\* the output is renamed after the gates c1 have moved, the inputs are not
RenameOutput(c1, output, new_names) ==
  [c1 EXCEPT !.output_gate = Renamed(new_names, output)]

\* the output and the inputs are renamed after the gates c1 have moved
RenameShared(c1, output, new_names) ==
  [c1 EXCEPT !.output_gate = Renamed(new_names, output),
             !.gates = RenameInputsBy(c1.gates, new_names)]

\* ensureUniqueNames when the names `shared` are those to rename
RenameSharedGates(c, shared) ==
  RenameShared(MoveGates(SetId(c, c.id + Len(shared)), shared, NewNames(c, shared)),
               c.output_gate, NewNames(c, shared))

\* the gates of c under the names they have
KeepNames(c, circuit) == c

\* rename the gates of c whose names are names of gates of circuit
ensureUniqueNames(c, circuit) ==
  IF c.err # "ok" THEN c
  ELSE RenameSharedGates(c, SelectSeq(InOrder(DOMAIN c.gates), LAMBDA n : has(circuit, n)))

\* setOutput(getNewGateName()), then the new gate g is added as the output
AddOutput(r, g) == addGate(setOutput(SetId(r, r.id + 1), NextName(r)), NextName(r), g, FALSE)

\* circuit is imported into r, whose names are already unique
Import(r, circuit, mk(_, _)) ==
  AddOutput(copyInto(r, circuit, FALSE), mk(r.output_gate, circuit.output_gate))

\* the body shared by operator+=, operator*= and Integrate once the result
\* object r exists: import circuit and add the gate mk(old output, its output)
Combine(r, circuit, mk(_, _)) ==
  IF r.err # "ok" THEN r
  ELSE IF r.output_gate = "" \/ circuit.output_gate = "" THEN Fail(r, "algebra_error")
  ELSE Import(ensureUniqueNames(r, circuit), circuit, mk)

\* operator+=(const GPAC&) and operator*=(const GPAC&)
PlusAssign(c, circuit) == Combine(c, circuit, AddGate)
TimesAssign(c, circuit) == Combine(c, circuit, ProductGate)

\* the value-returning composers test the outputs before they copy *this
CopyFor(c, circuit) ==
  IF c.err # "ok" THEN c
  ELSE IF c.output_gate = "" \/ circuit.output_gate = "" THEN Fail(c, "algebra_error")
  ELSE Copy(c, c.id)

\* operator+(const GPAC&), operator*(const GPAC&)
Plus(c, circuit) == Combine(CopyFor(c, circuit), circuit, AddGate)
Times(c, circuit) == Combine(CopyFor(c, circuit), circuit, ProductGate)

\* Integrate(circuit, value)
\* result.setInitValue(result.Output(), value)
SetOutputValue(r, value) == setInitValue(r, r.output_gate, value)

Integrate(c, circuit, value) ==
  SetOutputValue(Combine(CopyFor(c, circuit), circuit, IntGate), value)

\* the body of operator+=(T) and operator*=(T): reuse the first constant gate of
\* the given value, or add one
\* the body of the constant composers when `found` is the first constant gate
\* of the given value ("" when there is none)
CombineFound(r, constant, found, mk(_, _)) ==
  IF found # ""
  THEN setOutput(addGate(SetId(r, r.id + 1), NextName(r), mk(r.output_gate, found), FALSE),
                 NextName(r))
  ELSE setOutput(addGate(addConstantGate(SetId(r, r.id + 2), FreshName(r.id + 1),
                                         constant, FALSE),
                         FreshName(r.id + 2), mk(r.output_gate, FreshName(r.id + 1)), FALSE),
                 FreshName(r.id + 2))

CombineConstant(r, constant, mk(_, _)) ==
  IF r.err # "ok" THEN r
  ELSE CombineFound(r, constant,
                    FirstWhere(InOrder(DOMAIN r.gates),
                               LAMBDA n : isConstantGate(r, n) /\ r.gates[n].c = constant),
                    mk)

PlusAssignConstant(c, constant) == CombineConstant(c, constant, AddGate)
TimesAssignConstant(c, constant) == CombineConstant(c, constant, ProductGate)
PlusConstant(c, constant) ==
  IF c.err # "ok" THEN c ELSE CombineConstant(Copy(c, c.id), constant, AddGate)
TimesConstant(c, constant) ==
  IF c.err # "ok" THEN c ELSE CombineConstant(Copy(c, c.id), constant, ProductGate)

\* the inputs t of the gates `names` become old_output
SubstituteT(gs, names, old_output) ==
  [n \in DOMAIN gs |->
     IF n \in names /\ gs[n].kind # "Const"
     THEN [gs[n] EXCEPT !.X = IF gs[n].X = "t" THEN old_output ELSE gs[n].X,
                        !.Y = IF gs[n].Y = "t" THEN old_output ELSE gs[n].Y]
     ELSE gs[n]]

\* the end of operator(): the copy of *this is imported into result (the copy
\* of circuit, its names unique), its inputs t become the old output, normalize()
Substitute(c, r, copy) ==
  IF DOMAIN c.gates \ DOMAIN copyInto(r, copy, FALSE).gates # {}
  THEN Fail(r, "out_of_range")
  ELSE normalize(setOutput([copyInto(r, copy, FALSE) EXCEPT !.gates =
                              SubstituteT(copyInto(r, copy, FALSE).gates, DOMAIN c.gates,
                                          r.output_gate)],
                           c.output_gate))

\* operator() with result the copy of circuit and copy the copy of *this
ComposeCopies(c, result, copy) ==
  IF copy.err # "ok" THEN Fail(c, copy.err)
  ELSE Substitute(c, ensureUniqueNames(SetId(result, copy.id), copy), copy)

\* finalize(false, false): without simplify() it leaves one state
FinalizeNoSimplify(c) == CHOOSE r \in finalize(c, FALSE) : TRUE

\* computeValues(t) has filled the table tab: the process exits when a gate
\* has no value, else the table is that of the values
SimulateValues(c, tab) ==
  IF DOMAIN c.gates \subseteq DOMAIN tab THEN [c EXCEPT !.values = tab]
  ELSE Fail(c, "no_value")

\* Simulate(0, b, 0.001) with b >= 0.001: ODE() calls computeValues at every
\* stage of every step, the last one at the time b.  The integration of a
\* circuit that has integration gates is not followed ("presimulation").
Simulate(c, b) ==
  IF c.err # "ok" THEN c
  ELSE IF ~c.finalized THEN Fail(c, "not_finalized")
  ELSE IF c.int_gates # <<>> THEN Fail(c, "presimulation")
  ELSE SimulateValues(c, computeValueTable(c, b))

\* copy.importValues(copy2.getValues())
ImportSimulated(copy, copy2) ==
  IF copy2.err # "ok" THEN Fail(copy, copy2.err)
  ELSE importValues(SetId(copy, copy2.id), copy2.values)

\* -id, id being the circuit "Id" whose output is t
MinusIdentity(id0) == TimesConstant(setOutput(NewCircuit(TRUE, id0), "t"), D(-1))

DNeg(v) == <<-v[1], v[2]>>

RECURSIVE Compose(_, _)
\* "Compute new initial values": the copy of *this is simulated up to the value
\* b of circuit at 0, forwards, or backwards as copy(-id)
PreSimulate(copy, b) ==
  IF b[1] > 0 THEN Simulate(FinalizeNoSimplify(copy), b)
  ELSE IF b[1] < 0
  THEN ImportSimulated(copy,
         Simulate(FinalizeNoSimplify(Compose(SetId(copy, MinusIdentity(copy.id).id),
                                             MinusIdentity(copy.id))),
                  DNeg(b)))
  ELSE copy

\* operator() once the value b of circuit at 0 is known
ComposeAt(c, circuit, b) ==
  IF ~b.ok THEN Fail(c, "out_of_range")
  ELSE ComposeCopies(c, Copy(circuit, c.id),
                     PreSimulate(Copy(c, Copy(circuit, c.id).id), b.v))

\* operator()(const GPAC &circuit): *this after circuit
Compose(c, circuit) ==
  IF c.err # "ok" THEN c
  ELSE IF c.output_gate = "" \/ circuit.output_gate = "" THEN Fail(c, "algebra_error")
  ELSE IF circuit.output_gate = "t" THEN Copy(c, c.id)
  ELSE IF c.output_gate = "t" THEN Copy(circuit, c.id)
  ELSE ComposeAt(c, circuit, computeValue(circuit, D(0)))

\* operator-(const GPAC &circuit): *this + (circuit * (-1))
PlusNegated(c, negated) == Plus(SetId(c, negated.id), negated)

Minus(c, circuit) ==
  IF c.err # "ok" THEN c ELSE PlusNegated(c, TimesConstant(SetId(circuit, c.id), D(-1)))

\* res = res(res)
IterateSquare(res) == Assign(res, Compose(res, res))

\* res, whatever j is
IterateEven(c, j, res) == res

\* if (j % 2 == 1) res = res(*this)
IterateOdd(c, j, res) ==
  IF j % 2 = 1 /\ res.err = "ok" THEN Assign(res, Compose(res, SetId(c, res.id))) ELSE res

RECURSIVE Iterate(_, _)
\* Iterate(j)
Iterate(c, j) ==
  IF c.err # "ok" THEN c
  ELSE IF j = 0 THEN setOutput(NewCircuit(TRUE, c.id), "t")
  ELSE IF j = 1 THEN Copy(c, c.id)
  ELSE IterateOdd(c, j, IterateSquare(Assign(NewCircuit(TRUE, c.id), Iterate(c, j \div 2))))

(* ------------------------------ Derivate ------------------------------ *)

\* the end of DerivateGate(gate_name) with result res: [c, res]
DerivateEnd(c, gate_name, res) ==
  [c |-> IF c.err = "ok" /\ gate_name = c.output_gate
         THEN [c EXCEPT !.output_gate = res] ELSE c,
   res |-> res]

\* res = add*Gate("", ..., false) of the new gate g
DerivateNew(c, gate_name, g) == DerivateEnd(addGate(c, "", g, FALSE), gate_name, NextName(c))

\* DerivateGate ends the process with the error e
DerivateFail(c, e) == [c |-> Fail(c, e), res |-> ""]

\* a gate with the constant input const_gate, r being DerivateGate(other_gate)
DerivateScaled(r, gate_name, const_gate) ==
  IF r.c.err # "ok" THEN r
  ELSE IF isAddGate(r.c, gate_name) THEN DerivateEnd(r.c, gate_name, r.res)
  ELSE DerivateNew(r.c, gate_name, ProductGate(const_gate, r.res))

\* the sum of the derivatives of the inputs
DerivateSum(c, gate_name, deriv_x, deriv_y) ==
  DerivateNew(c, gate_name, AddGate(deriv_x, deriv_y))

\* (xy)' = x'y + xy' on the product gate_name of circuit c
DerivateProduct(c, gate_name, deriv_x, deriv_y) ==
  DerivateNew(addProductGate(addProductGate(c, "", deriv_x, YOf(c, gate_name), FALSE),
                             "", XOf(c, gate_name), deriv_y, FALSE),
              gate_name, AddGate(FreshName(c.id + 1), FreshName(c.id + 2)))

\* a gate with no constant input, ry being DerivateGate(gate->Y())
DerivateJoin(deriv_x, ry, gate_name) ==
  IF ry.c.err # "ok" THEN ry
  ELSE IF isAddGate(ry.c, gate_name)
  THEN DerivateNew(ry.c, gate_name, AddGate(deriv_x, ry.res))
  ELSE DerivateProduct(ry.c, gate_name, deriv_x, ry.res)

RECURSIVE DerivateGate(_, _, _)
\* rx is DerivateGate(gate->X()); DerivateGate(gate->Y()) follows
DerivateSecond(rx, gate_name, path) ==
  IF rx.c.err # "ok" THEN rx
  ELSE DerivateJoin(rx.res, DerivateGate(rx.c, YOf(rx.c, gate_name), path), gate_name)

\* the first input is no constant; cy: is the second input one (it is not t)
DerivateByY(c, gate_name, path, cy) ==
  IF cy \notin {"true", "false"} THEN DerivateFail(c, cy)
  ELSE IF cy = "true"
  THEN DerivateScaled(DerivateGate(c, XOf(c, gate_name), path), gate_name, YOf(c, gate_name))
  ELSE DerivateSecond(DerivateGate(c, XOf(c, gate_name), path), gate_name, path)

\* an addition or product gate; cx: is the first input a constant (and not t)
DerivateBinary(c, gate_name, path, cx) ==
  IF cx = "true"
  THEN DerivateScaled(DerivateGate(c, YOf(c, gate_name), path), gate_name, XOf(c, gate_name))
  ELSE DerivateByY(c, gate_name, path,
                   IF YOf(c, gate_name) = "t" THEN "false"
                   ELSE isCombinationConstantGates(c, YOf(c, gate_name)))

\* DerivateGate(gate_name) once isCombinationConstantGates(gate_name) answered comb
DerivateKnown(c, gate_name, path, comb) ==
  IF comb \notin {"true", "false"} THEN DerivateFail(c, comb)
  ELSE IF comb = "true" THEN DerivateNew(c, gate_name, ConstantGate(D(0)))
  ELSE IF isIntGate(c, gate_name)
  THEN IF YOf(c, gate_name) # "t" THEN DerivateFail(c, "not_normalized")
       ELSE DerivateEnd(c, gate_name, XOf(c, gate_name))
  ELSE IF gate_name \in path THEN DerivateFail(c, "stack_overflow")
  ELSE DerivateBinary(c, gate_name, path \cup {gate_name},
                      IF XOf(c, gate_name) = "t" THEN "false"
                      ELSE isCombinationConstantGates(c, XOf(c, gate_name)))

\* DerivateGate(gate_name) while the calls on the gates of `path` are active (a
\* call on one of them never returns): [c, res]
DerivateGate(c, gate_name, path) ==
  IF c.err # "ok" THEN [c |-> c, res |-> ""]
  ELSE IF gate_name = "t" THEN DerivateNew(c, gate_name, ConstantGate(D(1)))
  ELSE DerivateKnown(c, gate_name, path, isCombinationConstantGates(c, gate_name))

\* Derivate()
Derivate(c) ==
  IF c.err # "ok" THEN c ELSE DerivateGate(Copy(c, c.id), c.output_gate, {}).c

(* ------------------------------ Inverse ------------------------------- *)

\* 1. / 0 in the arithmetic of double: infinity, which is no dyadic value
Infinity == <<1, -1>>

RECURSIVE IsPow2(_)
IsPow2(n) == n = 1 \/ (n > 1 /\ n % 2 = 0 /\ IsPow2(n \div 2))

RECURSIVE Log2(_)
Log2(n) == IF n <= 1 THEN 0 ELSE 1 + Log2(n \div 2)

DAbs(n) == IF n < 0 THEN -n ELSE n

\* the values init for which 1. / init is computed without rounding, and 0
HasReciprocal(init) == init[1] = 0 \/ IsPow2(DAbs(init[1]))

\* 1. / init
DInv(init) ==
  IF init[1] = 0 THEN Infinity
  ELSE DNorm(<<(IF init[1] < 0 THEN -1 ELSE 1) * Pow2(init[2]), Log2(DAbs(init[1]))>>)

\* the gates Inverse() adds to res once DerivateGate has left it r: the constant
\* c = -1, p1 = c * A', the integration gate z of p2 with the value inv, p3 = z * z
\* and p2 = p1 * p3; z is the output
InverseGates(r, inv) ==
  setOutput(
    addProductGate(
      addProductGate(
        setInitValue(
          addIntGate(
            SetId(addProductGate(addConstantGate(r, "", D(-1), FALSE),
                                 "", FreshName(r.id + 1), r.output_gate, TRUE),
                  r.id + 3),
            "", FreshName(r.id + 3), "t", FALSE),
          FreshName(r.id + 4), inv),
        "", FreshName(r.id + 4), FreshName(r.id + 4), FALSE),
      FreshName(r.id + 3), FreshName(r.id + 2), FreshName(r.id + 5), FALSE),
    FreshName(r.id + 4))

\* Inverse() once init = res.computeValue(0) is known
InverseAt(res, init) ==
  IF ~init.ok THEN Fail(res, "out_of_range")
  ELSE InverseGates(DerivateGate(res, res.output_gate, {}).c, DInv(init.v))

\* Inverse() on the copy res of *this
InverseOf(res) == InverseAt(res, computeValue(res, D(0)))

\* Inverse()
Inverse(c) == IF c.err # "ok" THEN c ELSE InverseOf(Copy(c, c.id))

\* (*this) * inv, inv being circuit.Inverse()
TimesInverse(c, inv) == IF inv.err # "ok" THEN Fail(c, inv.err) ELSE Times(SetId(c, inv.id), inv)

\* operator/(const GPAC &circuit)
Divide(c, circuit) ==
  IF c.err # "ok" THEN c ELSE TimesInverse(c, Inverse(SetId(circuit, c.id)))

(* --------------------------- builtin circuits ------------------------- *)

\* operator()(gate_name, op, x, y) and operator()(gate_name, value) of a builtin
Builtin(id0) == NewCircuit(TRUE, id0)

\* Identity()
Identity(id0) == setOutput(Builtin(id0), "t")

\* Constant(constant)
Constant(constant, id0) == setOutput(addConstantGate(Builtin(id0), "c", constant, TRUE), "c")

\* Exp()
Exp(id0) ==
  setInitValue(setOutput(addIntGate(Builtin(id0), "exp", "exp", "t", TRUE), "exp"),
               "exp", D(1))

\* Sin()
Sin(id0) ==
  setInitValue(
    setInitValue(
      setOutput(
        addIntGate(
          addIntGate(
            addProductGate(addConstantGate(Builtin(id0), "sin_c", D(-1), TRUE),
                           "sin_P", "sin", "sin_c", TRUE),
            "cos", "sin_P", "t", TRUE),
          "sin", "cos", "t", TRUE),
        "sin"),
      "cos", D(1)),
    "sin", D(0))

RECURSIVE Squarings(_, _)
\* for (i < n - 1) res = res * res
Squarings(res, k) == IF k = 0 THEN res ELSE Squarings(Assign(res, Times(res, res)), k - 1)

\* PowerPower2(n), n >= 1
PowerPower2(n, id0) ==
  Squarings(setOutput(addProductGate(Builtin(id0), "P1", "t", "t", TRUE), "P1"), n - 1)

RECURSIVE PolynomialLoop(_, _, _)
\* for (i = coeffs.size() - 1; i >= 0; --i), indices from 0
\* the body of the loop: res *= Identity(); if (coeffs[i] != 0) res += coeffs[i]
PolynomialStep(res, coeff) ==
  IF coeff # D(0) THEN PlusAssignConstant(TimesAssign(res, Identity(res.id)), coeff)
  ELSE TimesAssign(res, Identity(res.id))

PolynomialLoop(res, coeffs, i) ==
  IF i < 0 THEN res ELSE PolynomialLoop(PolynomialStep(res, coeffs[i + 1]), coeffs, i - 1)

\* Polynomial(coeffs)
Polynomial(coeffs, id0) ==
  IF Len(coeffs) = 0 THEN Constant(D(0), id0)
  ELSE PolynomialLoop(Constant(coeffs[Len(coeffs)], id0), coeffs, Len(coeffs) - 1)


(* ------------------------ the circuit under construction -------------- *)

VARIABLES
  gates,        \* the gates of the circuit
  output_gate,  \* its output
  values,       \* its values
  validation,   \* its validation attribute
  finalized,    \* its finalized attribute
  int_gates,    \* its list of integration gates
  new_gate_id,  \* the static counter of fresh names
  err,          \* "ok", or how the process ended
  op,           \* the operation applied last
  ops,          \* the number of operations applied
  made,         \* the expression that constructed the circuit
  saved,        \* the circuit as the operation applied last found it
  pb_int_gates  \* the priority queue of a running normalize()

vars == <<gates, output_gate, values, validation, finalized, int_gates,
          new_gate_id, err, op, ops, made, saved, pb_int_gates>>

\* the circuit as the operators above take it
Circuit ==
  [gates |-> gates, output_gate |-> output_gate, values |-> values,
   validation |-> validation, finalized |-> finalized, int_gates |-> int_gates,
   id |-> new_gate_id, err |-> err]

\* the circuit and the counter become those of c
Holds(c) ==
  /\ gates = c.gates
  /\ output_gate = c.output_gate
  /\ values = c.values
  /\ validation = c.validation
  /\ finalized = c.finalized
  /\ int_gates = c.int_gates
  /\ new_gate_id = c.id
  /\ err = c.err

\* the operation `name` leaves the circuit and the counter as in c
Becomes(c, name) ==
  /\ gates' = c.gates
  /\ output_gate' = c.output_gate
  /\ values' = c.values
  /\ validation' = c.validation
  /\ finalized' = c.finalized
  /\ int_gates' = c.int_gates
  /\ new_gate_id' = c.id
  /\ err' = c.err
  /\ op' = name
  /\ ops' = ops + 1
  /\ UNCHANGED <<made, saved, pb_int_gates>>

\* an operation can start: the process is alive
Ready == err = "ok" /\ ops < MaxOps /\ new_gate_id <= MaxId

GateNames == {"a", "b"}
InputNames == {"a", "b", "t"}
InitValues == {D(0), D(1)}

\* GPAC("", false) after addConstantGate("b", 1), addIntGate("a", "b", "t"),
\* setInitValue("a", 0) and setOutput("a"): the integral of the constant 1
Ramp ==
  setOutput(setInitValue(addIntGate(addConstantGate(NewCircuit(FALSE, 0), "b", D(1), TRUE),
                                    "a", "b", "t", TRUE),
                         "a", D(0)),
            "a")

\* the circuits the process starts from: GPAC(name, validation_), Exp(), Sin(),
\* and the circuit Ramp
Constructed ==
  [GPAC |-> NewCircuit(TRUE, 0), GPAC_unvalidated |-> NewCircuit(FALSE, 0),
   Exp |-> Exp(0), Sin |-> Sin(0), Ramp |-> Ramp]

Init ==
  /\ \E m \in DOMAIN Constructed : Holds(Constructed[m]) /\ made = <<m>>
  /\ op = "new"
  /\ ops = 0
  /\ saved = NewCircuit(TRUE, 0)
  /\ pb_int_gates = <<>>

AddConstant ==
  /\ Ready
  /\ \E n \in GateNames \cup {""}, v \in InitValues :
       Becomes(addConstantGate(Circuit, n, v, TRUE), "addConstantGate")

AddAdd ==
  /\ Ready
  /\ \E n \in GateNames \cup {""}, x \in InputNames, y \in InputNames :
       Becomes(addAddGate(Circuit, n, x, y, TRUE), "addAddGate")

AddProduct ==
  /\ Ready
  /\ \E n \in GateNames \cup {""}, x \in InputNames, y \in InputNames :
       Becomes(addProductGate(Circuit, n, x, y, TRUE), "addProductGate")

AddInt ==
  /\ Ready
  /\ \E n \in GateNames \cup {""}, x \in InputNames, y \in InputNames :
       Becomes(addIntGate(Circuit, n, x, y, TRUE), "addIntGate")

EraseGate ==
  /\ Ready
  /\ \E n \in DOMAIN gates : Becomes(eraseGate(Circuit, n), "eraseGate")

RenameInputs ==
  /\ Ready
  /\ \E old \in InputNames : \E new \in InputNames \ {old} :
       Becomes(renameInputs(Circuit, old, new), "renameInputs")

RenameGate ==
  /\ Ready
  /\ \E old \in DOMAIN gates, new \in GateNames :
       Becomes(renameGate(Circuit, old, new), "renameGate")

SetOutput ==
  /\ Ready
  /\ \E n \in InputNames : Becomes(setOutput(Circuit, n), "setOutput")

SetInitValue ==
  /\ Ready
  /\ \E n \in GateNames, v \in InitValues :
       Becomes(setInitValue(Circuit, n, v), "setInitValue")

ImportValues ==
  /\ Ready
  /\ \E n \in GateNames, v \in InitValues :
       Becomes(importValues(Circuit, (n :> v)), "importValues")

Normalize == Ready /\ Becomes(normalize(Circuit), "normalize")

Simplify == Ready /\ \E c \in simplify(Circuit) : Becomes(c, "simplify")

Validate == Ready /\ Becomes(validate(Circuit), "validate")

Finalize == Ready /\ \E c \in finalize(Circuit, TRUE) : Becomes(c, "finalize")

\* circuit = circuit.Integrate(Constant(1), v) or circuit.Integrate(Identity(), v)
DoIntegrate ==
  /\ Ready
  /\ \E v \in InitValues, b \in {Identity(0), Constant(D(1), 0)} :
       Becomes(Assign(Circuit, Integrate(Circuit, b, v)), "Integrate")

Next ==
  \/ AddConstant
  \/ AddAdd
  \/ AddProduct
  \/ AddInt
  \/ EraseGate
  \/ RenameInputs
  \/ RenameGate
  \/ SetOutput
  \/ SetInitValue
  \/ ImportValues
  \/ Normalize
  \/ Simplify
  \/ Validate
  \/ Finalize
  \/ DoIntegrate

Spec == Init /\ [][Next]_vars

\* every key of the table vs is an integration gate of gs
ValuesAreInt(gs, vs) == \A n \in DOMAIN vs : n \in DOMAIN gs /\ gs[n].kind = "Int"

\* construction, overwrite, rename, erase, assignment, normalize and simplify
TableKeepers ==
  {"addConstantGate", "addAddGate", "addProductGate", "addIntGate", "setInitValue",
   "eraseGate", "renameInputs", "renameGate", "Integrate", "normalize", "simplify"}

\* C19: construction, overwrite, rename, erase, assignment, normalize and
\* simplify, applied to a circuit in which every key of the table of init
\* values is an integration gate of the circuit, leave such a circuit.
C19_ValuesOfIntGates ==
  [][(op' \in TableKeepers /\ err' = "ok" /\ ValuesAreInt(gates, values))
       => ValuesAreInt(gates', values')]_vars

\* an init value is left under the name of a gate that has been erased
C19_StaleValue ==
  /\ op = "eraseGate"
  /\ err = "ok"
  /\ \E n \in DOMAIN values : n \notin DOMAIN gates

\* r is c with the gate `old` and its init value moved to `new`: the output
\* follows, the number of gates is that of c, no gate has changed its inputs
Moved(c, old, new, r) ==
  /\ new \in DOMAIN r.gates
  /\ r.gates[new] = c.gates[old]
  /\ old \in DOMAIN c.values => new \in DOMAIN r.values /\ r.values[new] = c.values[old]
  /\ c.output_gate = old => r.output_gate = new
  /\ Cardinality(DOMAIN r.gates) = Cardinality(DOMAIN c.gates)
  /\ \A n \in DOMAIN r.gates \ {new} : n \in DOMAIN c.gates /\ r.gates[n] = c.gates[n]

\* C20: for every gate `old` of the circuit and every name `new`,
\* renameGate(old, new) leaves the former gate of `old` under `new` together
\* with its init value, sets the output to `new` if it was `old`, keeps the
\* number of gates and leaves the inputs of every gate unchanged.
C20_RenameGateMoves ==
  err = "ok" =>
    \A old \in DOMAIN gates, new \in GateNames :
       Moved(Circuit, old, new, renameGate(Circuit, old, new))

\* renameGate(a, a) has deleted the gate a
C20_RenamedAway ==
  /\ op = "renameGate"
  /\ err = "ok"
  /\ gates = NoGates
  /\ DOMAIN values = {"a"}

(* ------------------ circuits made with the library -------------------- *)

\* the expressions the composers are applied to
AtomNames ==
  {"Exp()", "Sin()", "Identity()", "Constant(1)", "Constant(2)", "PowerPower2(1)",
   "Identity().Integrate(Identity(), 0)", "Identity().Integrate(Identity(), 1)"}

\* the circuit the expression a constructs when the counter is at id0
Atom(a, id0) ==
  CASE a = "Exp()" -> Exp(id0)
    [] a = "Sin()" -> Sin(id0)
    [] a = "Identity()" -> Identity(id0)
    [] a = "Constant(1)" -> Constant(D(1), id0)
    [] a = "Constant(2)" -> Constant(D(2), id0)
    [] a = "PowerPower2(1)" -> PowerPower2(1, id0)
    [] a = "Identity().Integrate(Identity(), 0)" ->
         Integrate(Identity(id0), Identity(id0), D(0))
    [] a = "Identity().Integrate(Identity(), 1)" ->
         Integrate(Identity(id0), Identity(id0), D(1))

\* two operands constructed one after the other: the counter is static
Pair(x, y) == [x |-> SetId(x, y.id), y |-> y]

Operands(a, b, id0) == Pair(Atom(a, id0), Atom(b, Atom(a, id0).id))

PlusOf(p) == Plus(p.x, p.y)
TimesOf(p) == Times(p.x, p.y)
ComposeOf(p) == Compose(p.x, p.y)
IntegrateOf(p, v) == Integrate(p.x, p.y, v)

\* the coefficient vectors of the polynomials
CoeffVectors == UNION {[1..n -> 0..MaxCoeff] : n \in 0..MaxLen}

RECURSIVE DSeq(_)
\* the values of type T of a vector of integers
DSeq(coeffs) == IF coeffs = <<>> THEN <<>> ELSE <<D(Head(coeffs))>> \o DSeq(Tail(coeffs))

\* the operation `name` returns the circuit c; m is the expression that made it
Returns(c, name, m) ==
  /\ gates' = c.gates
  /\ output_gate' = c.output_gate
  /\ values' = c.values
  /\ validation' = c.validation
  /\ finalized' = c.finalized
  /\ int_gates' = c.int_gates
  /\ new_gate_id' = c.id
  /\ err' = c.err
  /\ op' = name
  /\ ops' = ops + 1
  /\ made' = m
  /\ saved' = Circuit
  /\ UNCHANGED pb_int_gates

InitLib ==
  /\ \E id0 \in 0..MaxId : Holds(NewCircuit(TRUE, id0))
  /\ op = "new"
  /\ ops = 0
  /\ made = <<>>
  /\ saved = NewCircuit(TRUE, 0)
  /\ pb_int_gates = <<>>

\* a + b
MakeSum ==
  /\ op = "new"
  /\ \E a \in AtomNames, b \in AtomNames :
       Returns(PlusOf(Operands(a, b, new_gate_id)), "operator+", <<"operator+", a, b>>)

\* a * b
MakeProduct ==
  /\ op = "new"
  /\ \E a \in AtomNames, b \in AtomNames :
       Returns(TimesOf(Operands(a, b, new_gate_id)), "operator*", <<"operator*", a, b>>)

\* a(b), for the circuits b that are 0 at 0
MakeComposition ==
  /\ op = "new"
  /\ \E a \in AtomNames, b \in AtomNames :
       /\ computeValue(Atom(b, 0), D(0)) = [ok |-> TRUE, v |-> D(0)]
       /\ Returns(ComposeOf(Operands(a, b, new_gate_id)), "operator()",
                  <<"operator()", a, b>>)

\* a.Integrate(b, v)
MakeIntegral ==
  /\ op = "new"
  /\ \E a \in AtomNames, b \in AtomNames, v \in InitValues :
       Returns(IntegrateOf(Operands(a, b, new_gate_id), v), "Integrate",
               <<"Integrate", a, b, v>>)

\* Polynomial(coeffs)
MakePolynomial ==
  /\ op = "new"
  /\ \E coeffs \in CoeffVectors :
       Returns(Polynomial(DSeq(coeffs), new_gate_id), "Polynomial", <<"Polynomial", coeffs>>)

\* the circuit is made and the process is alive
LibReady == op # "new" /\ err = "ok" /\ ops < MaxOps

LibNormalize == LibReady /\ Returns(normalize(Circuit), "normalize", made)

LibSimplify == LibReady /\ \E c \in simplify(Circuit) : Returns(c, "simplify", made)

\* finalize(), or finalize(false): without the simplification
LibFinalize ==
  /\ LibReady
  /\ \E simplification \in BOOLEAN : \E c \in finalize(Circuit, simplification) :
       Returns(c, IF simplification THEN "finalize" ELSE "finalize(false)", made)

NextLib ==
  \/ MakeSum
  \/ MakeProduct
  \/ MakeComposition
  \/ MakeIntegral
  \/ MakePolynomial
  \/ LibNormalize
  \/ LibSimplify
  \/ LibFinalize

SpecLib == InitLib /\ [][NextLib]_vars

(* ------------------- properties of the library circuits --------------- *)

\* the number of gates of a kind
Count(c, kind) == Cardinality({n \in DOMAIN c.gates : c.gates[n].kind = kind})

\* no two constant gates have the same value
NoEqualConstants(c) ==
  \A n \in DOMAIN c.gates : \A m \in DOMAIN c.gates :
    (isConstantGate(c, n) /\ isConstantGate(c, m) /\ c.gates[n].c = c.gates[m].c) => n = m

\* simplify() has just returned on Exp() + Exp()
ExpPlusExpSimplified ==
  made = <<"operator+", "Exp()", "Exp()">> /\ op = "simplify" /\ err = "ok"

\* C8 as stated: after simplify(), Exp() + Exp() has exactly one integration
\* gate, exactly one addition gate and no two constant gates of equal value.
C8_OneIntGate ==
  ExpPlusExpSimplified =>
    /\ Count(Circuit, "Int") = 1
    /\ Count(Circuit, "Add") = 1
    /\ NoEqualConstants(Circuit)

\* C8: after simplify(), Exp() + Exp() has exactly two integration gates (each
\* is its own first input, so the two are not merged), exactly one addition
\* gate and no two constant gates of equal value.
C8_TwoIntGates ==
  ExpPlusExpSimplified =>
    /\ Count(Circuit, "Int") = 2
    /\ Count(Circuit, "Add") = 1
    /\ NoEqualConstants(Circuit)

C8_Witness ==
  /\ ExpPlusExpSimplified
  /\ Count(saved, "Int") = 2
  /\ \A n \in IntGates(Circuit) : gates[n].X = n

\* finalize() has just returned on Sin()(PowerPower2(1)), which was not finalized
SinOfSquareFinalized ==
  /\ made = <<"operator()", "Sin()", "PowerPower2(1)">>
  /\ op = "finalize" /\ err = "ok" /\ ~saved.finalized

\* C9 as stated: after finalize(), Sin()(PowerPower2(1)) has 4 integration gates.
C9_FourIntGates == SinOfSquareFinalized => Count(Circuit, "Int") = 4

\* C9: after finalize(), whose simplification merges the equal integration
\* gates normalize() has made, Sin()(PowerPower2(1)) has 2 integration gates.
C9_TwoIntGates == SinOfSquareFinalized => Count(Circuit, "Int") = 2

C9_Witness ==
  /\ SinOfSquareFinalized
  /\ Count(saved, "Int") = 4
  /\ Len(int_gates) = 2

RECURSIVE Power(_, _)
Power(t_0, i) == IF i = 0 THEN 1 ELSE t_0 * Power(t_0, i - 1)

RECURSIVE PolynomialValue(_, _, _)
\* the sum of coeffs[i] * t_0^(i-1) over the indices i..Len(coeffs)
PolynomialValue(coeffs, t_0, i) ==
  IF i > Len(coeffs) THEN 0
  ELSE coeffs[i] * Power(t_0, i - 1) + PolynomialValue(coeffs, t_0, i + 1)

\* C10: Polynomial(coeffs) evaluates at every t to the sum of coeffs[i] * t^i,
\* the coefficients being given in the increasing order of the degrees.
C10_PolynomialValue ==
  op = "Polynomial" =>
    \A t_0 \in 0..MaxPoint :
      computeValue(Circuit, D(t_0)) = [ok |-> TRUE, v |-> D(PolynomialValue(made[2], t_0, 1))]

\* the output of c is set and the inputs of its gates are t or gates
Evaluable(c) ==
  /\ c.output_gate # ""
  /\ \A n \in DOMAIN c.gates :
       isBinaryGate(c, n) =>
         /\ c.gates[n].X = "t" \/ has(c, c.gates[n].X)
         /\ c.gates[n].Y = "t" \/ has(c, c.gates[n].Y)

\* C5: simplify() preserves the value of the output obtained by propagation,
\* at every t_0, for the circuits whose output is set and whose inputs exist.
C5_SimplifyPreservesValue ==
  (op = "simplify" /\ err = "ok" /\ Evaluable(saved)) =>
    \A t_0 \in 0..MaxPoint :
      computeValue(saved, D(t_0)).ok =>
        computeValue(Circuit, D(t_0)) = computeValue(saved, D(t_0))

C5_Witness ==
  /\ op = "simplify" /\ err = "ok" /\ Evaluable(saved)
  /\ computeValue(saved, D(1)).ok
  /\ Count(Circuit, "Int") < Count(saved, "Int")

\* C15: finalize() is idempotent: a second finalize() directly after a
\* successful one changes neither the gates, the output, the initial values,
\* int_gates nor the attribute finalized.
C15_FinalizeIdempotent ==
  [][(op = "finalize" /\ err = "ok" /\ op' = "finalize") =>
       /\ <<gates', output_gate', values', int_gates', finalized'>>
            = <<gates, output_gate, values, int_gates, finalized>>
       /\ err' = "ok"]_vars

\* finalize() has been called on a circuit with integration gates that a
\* successful finalize() had just left
C15_Witness ==
  /\ op = "finalize"
  /\ err = "ok"
  /\ saved.finalized
  /\ ops = 3
  /\ int_gates # <<>>

(* ---------------- properties of the circuit under construction -------- *)

\* every integration gate has t as its second input
IntGatesNormalized(c) == \A n \in IntGates(c) : c.gates[n].Y = "t"

\* C1: whenever normalize() returns without error, every integration gate of
\* the circuit has t as its second input.
C1_NormalizedAfterNormalize == (op = "normalize" /\ err = "ok") => IntGatesNormalized(Circuit)

\* C3: right after finalize() succeeds every integration gate has t as its
\* second input and an initial value, and int_gates lists exactly the
\* integration gates.
C3_FinalizedCircuit ==
  (op = "finalize" /\ err = "ok") =>
    /\ IntGatesNormalized(Circuit)
    /\ IntGates(Circuit) \subseteq DOMAIN values
    /\ Range(int_gates) = IntGates(Circuit)
    /\ Len(int_gates) = Cardinality(IntGates(Circuit))

\* the operations that change the structure or the initial values
Mutators ==
  {"addConstantGate", "addAddGate", "addProductGate", "addIntGate", "eraseGate",
   "renameGate", "renameInputs", "setOutput", "setInitValue", "importValues"}

\* C4: an operation that changes the gates, the output or the initial values
\* leaves the attribute finalized false.
C4_MutatorsResetFinalized ==
  [][(op' \in Mutators /\ err' = "ok"
      /\ <<gates', output_gate', values'>> # <<gates, output_gate, values>>)
       => ~finalized']_vars

\* C6: whenever validate() returns without error every input of every
\* addition, product and integration gate is t or a gate of the circuit, and
\* the output is t or a gate of the circuit.
C6_ValidAfterValidate ==
  (op = "validate" /\ err = "ok") =>
    /\ \A n \in DOMAIN gates :
         isBinaryGate(Circuit, n) =>
           /\ gates[n].X = "t" \/ gates[n].X \in DOMAIN gates
           /\ gates[n].Y = "t" \/ gates[n].Y \in DOMAIN gates
    /\ output_gate = "t" \/ output_gate \in DOMAIN gates

\* C7: a circuit whose validation is on never has an integration gate whose
\* second input is a constant gate.
C7_NoIntOfConstant ==
  (validation /\ err = "ok") =>
    \A n \in IntGates(Circuit) :
      ~(has(Circuit, gates[n].Y) /\ isConstantGate(Circuit, gates[n].Y))

\* the circuit c has an integration gate whose second input is a constant gate
HasIntOfConstant(c) ==
  \E n \in IntGates(c) : has(c, YOf(c, n)) /\ isConstantGate(c, YOf(c, n))

\* C14: finalize() on a circuit whose validation is off and that has an
\* integration gate whose second input is a constant gate ends in the
\* non-normalizable error outcome, and finalized is not true after it.
C14_IntOfConstantNotFinalized ==
  [][(op' = "finalize" /\ ~validation /\ HasIntOfConstant(Circuit))
       => (err' = "not_normalizable" /\ ~finalized')]_vars

(* -------------------- normalize(), one iteration at a time ------------ *)

\* the gates a circuit of two gates can have
SmallGates ==
  {ConstantGate(D(1))}
    \cup {AddGate(x, y) : x \in InputNames, y \in InputNames}
    \cup {ProductGate(x, y) : x \in InputNames, y \in InputNames}
    \cup {IntGate(x, y) : x \in InputNames, y \in InputNames}

\* the circuit of the gates gs, with the initial values vs
SmallCircuit(gs, vs) == [NewCircuit(TRUE, 0) EXCEPT !.gates = gs, !.values = vs]

RECURSIVE FeedsThrough(_, _)
\* the gates the gates of `seen` depend on without crossing an integration gate
FeedsThrough(c, seen) ==
  LET more == {n \in DOMAIN c.gates :
                 \E m \in seen : (isAddGate(c, m) \/ isProductGate(c, m))
                                   /\ n \in {c.gates[m].X, c.gates[m].Y}}
  IN  IF more \subseteq seen THEN seen ELSE FeedsThrough(c, seen \cup more)

\* the inputs of the gate n
InputsOf(c, n) == IF isBinaryGate(c, n) THEN {c.gates[n].X, c.gates[n].Y} ELSE {}

\* every cycle of the circuit passes through an integration gate
CyclesThroughInt(c) ==
  \A n \in DOMAIN c.gates :
    (isAddGate(c, n) \/ isProductGate(c, n)) =>
      n \notin FeedsThrough(c, InputsOf(c, n) \cap DOMAIN c.gates)

\* every name an input refers to is t or a gate
NamesExist(c) == \A n \in DOMAIN c.gates : InputsOf(c, n) \subseteq DOMAIN c.gates \cup {"t"}

InitNorm ==
  /\ \E gs \in [GateNames -> SmallGates] :
       \E vs \in {NoValues, [n \in IntGates(SmallCircuit(gs, NoValues)) |-> D(1)]} :
         Holds(SmallCircuit(gs, vs))
  /\ saved = Circuit
  /\ op = "new"
  /\ ops = 0
  /\ made = <<>>
  /\ pb_int_gates = <<>>

\* the loop of normalize() is in the state s = [c, q] after `done` iterations
Looping(s, done) ==
  /\ gates' = s.c.gates
  /\ output_gate' = s.c.output_gate
  /\ values' = s.c.values
  /\ validation' = s.c.validation
  /\ finalized' = s.c.finalized
  /\ int_gates' = s.c.int_gates
  /\ new_gate_id' = s.c.id
  /\ err' = s.c.err
  /\ pb_int_gates' = s.q
  /\ op' = "normalize_loop"
  /\ ops' = done
  /\ UNCHANGED <<made, saved>>

\* normalize() is called and fills its priority queue
NormBegin == op = "new" /\ Looping(NormalizeStart(Circuit), 0)

\* one iteration of while (pb_int_gates.size() > 0)
NormIter ==
  /\ op = "normalize_loop"
  /\ err = "ok"
  /\ pb_int_gates # <<>>
  /\ ops < MaxNormSteps
  /\ Looping(NormalizeStep([c |-> Circuit, q |-> pb_int_gates]), ops + 1)

\* the queue is empty: normalize() returns
NormEnd ==
  /\ op = "normalize_loop"
  /\ err = "ok"
  /\ pb_int_gates = <<>>
  /\ op' = "normalize"
  /\ UNCHANGED <<gates, output_gate, values, validation, finalized, int_gates,
                 new_gate_id, err, ops, made, saved, pb_int_gates>>

NextNorm ==
  \/ NormBegin
  \/ NormIter
  \/ NormEnd

SpecNorm == InitNorm /\ [][NextNorm]_vars

\* normalize() has returned, or the process has exited on an error
NormDone == op = "normalize" \/ err # "ok"

\* the integration gate n is an input of the addition gate that is its second
\* input, and the other input of that gate is not a combination of constants
SelfFed(c, n) ==
  /\ isAddGate(c, YOf(c, n))
  /\ \/ XOf(c, YOf(c, n)) = n /\ isCombinationConstantGates(c, YOf(c, YOf(c, n))) = "false"
     \/ YOf(c, YOf(c, n)) = n /\ isCombinationConstantGates(c, XOf(c, YOf(c, n))) = "false"

\* a gate of the queue is fed by itself
SelfFedPending == \E i \in DOMAIN pb_int_gates : SelfFed(Circuit, pb_int_gates[i])

\* an iteration that does not end in an error leaves a self-fed gate in the
\* queue when there was one: such a queue never becomes empty
SelfFedPersists == [][(SelfFedPending /\ err' = "ok") => SelfFedPending']_vars

\* the circuit normalize() was called on has the names its inputs refer to and
\* no cycle that avoids the integration gates
Normalizable(c) == NamesExist(c) /\ CyclesThroughInt(c)

\* the loop has made MaxNormSteps iterations and its queue is not empty: the
\* run is followed no further
NormCut ==
  op = "normalize_loop" /\ err = "ok" /\ pb_int_gates # <<>> /\ ops = MaxNormSteps

\* on such circuits the only runs that are cut are those whose queue holds a
\* self-fed gate, which never end
OnlyEndlessRunsAreCut == (Normalizable(saved) /\ NormCut) => SelfFedPending

\* C2: normalize() terminates on every circuit in which the names referred to
\* exist and every cycle passes through an integration gate: its loop
\* returns, or exits on an error, before the MaxNormSteps iterations that
\* only endless runs make.
C2_NormalizeTerminates == Normalizable(saved) => ~NormCut

(* --------------------- polynomials, as the reference ------------------ *)

\* a polynomial is the sequence of its coefficients, that of t^(i-1) at i
Coeff(p, i) == IF i \in DOMAIN p THEN p[i] ELSE D(0)

RECURSIVE PolyAddFrom(_, _, _)
\* the coefficients i.. of p + q
PolyAddFrom(p, q, i) ==
  IF i > Len(p) /\ i > Len(q) THEN <<>>
  ELSE <<DAdd(Coeff(p, i), Coeff(q, i))>> \o PolyAddFrom(p, q, i + 1)

PolyAdd(p, q) == PolyAddFrom(p, q, 1)

RECURSIVE Convolve(_, _, _, _)
\* the sum of p[j] * q[k + 1 - j] over j in 1..i
Convolve(p, q, k, i) ==
  IF i = 0 THEN D(0)
  ELSE DAdd(DMul(Coeff(p, i), Coeff(q, k + 1 - i)), Convolve(p, q, k, i - 1))

RECURSIVE PolyMulFrom(_, _, _)
\* the coefficients k.. of p * q
PolyMulFrom(p, q, k) ==
  IF k > Len(p) + Len(q) - 1 THEN <<>>
  ELSE <<Convolve(p, q, k, k)>> \o PolyMulFrom(p, q, k + 1)

PolyMul(p, q) == IF p = <<>> \/ q = <<>> THEN <<>> ELSE PolyMulFrom(p, q, 1)

RECURSIVE PolyDerivFrom(_, _)
\* the coefficients i.. of d/dt p
PolyDerivFrom(p, i) ==
  IF i >= Len(p) THEN <<>> ELSE <<DMul(D(i), p[i + 1])>> \o PolyDerivFrom(p, i + 1)

\* d/dt
PolyDeriv(p) == PolyDerivFrom(p, 1)

RECURSIVE PolyEval(_, _, _)
\* the value at t_0 of the polynomial of the coefficients p[i..]
PolyEval(p, t_0, i) ==
  IF i > Len(p) THEN D(0) ELSE DAdd(p[i], DMul(t_0, PolyEval(p, t_0, i + 1)))

RECURSIVE PolyOf(_, _)
\* the polynomial the gate n of the circuit c computes: an addition gate adds
\* and a product gate multiplies its inputs, a constant gate is its constant
PolyOf(c, n) ==
  IF n = "t" THEN <<D(0), D(1)>>
  ELSE IF isConstantGate(c, n) THEN <<c.gates[n].c>>
  ELSE IF isAddGate(c, n) THEN PolyAdd(PolyOf(c, XOf(c, n)), PolyOf(c, YOf(c, n)))
  ELSE PolyMul(PolyOf(c, XOf(c, n)), PolyOf(c, YOf(c, n)))

RECURSIVE PolyTrim(_)
\* p without its leading coefficients 0
PolyTrim(p) ==
  IF p # <<>> /\ p[Len(p)] = D(0) THEN PolyTrim(SubSeq(p, 1, Len(p) - 1)) ELSE p

RECURSIVE PolyCompose(_, _, _)
\* the polynomial of the coefficients p[i..] applied to the polynomial q
PolyCompose(p, q, i) ==
  IF i > Len(p) THEN <<>>
  ELSE PolyAdd(<<p[i]>>, PolyMul(q, PolyCompose(p, q, i + 1)))

RECURSIVE PolyIterate(_, _)
\* p applied n times to t
PolyIterate(p, n) ==
  IF n = 0 THEN <<D(0), D(1)>> ELSE PolyCompose(p, PolyIterate(p, n - 1), 1)

\* the output of c is t or a gate
OutputExists(c) == c.output_gate \in DOMAIN c.gates \cup {"t"}

\* a circuit of Constant, Add and Prod gates and t whose output is a polynomial
PolynomialCircuit(c) ==
  IntGates(c) = {} /\ NamesExist(c) /\ CyclesThroughInt(c) /\ OutputExists(c)

(* ----------------- the operations of the algebra of circuits ---------- *)

\* the circuits A the operations are applied to: at most two gates, any output
AlgCircuits ==
  {[SmallCircuit(gs, vs) EXCEPT !.output_gate = o] :
     gs \in UNION {[S -> SmallGates] : S \in SUBSET GateNames},
     vs \in {NoValues}, o \in InputNames \cup {""}}

\* the circuit of the gates a = b + c, b = t * t and c = constant: t^2 + constant
SquarePlus(constant) ==
  [SmallCircuit([n \in {"a", "b", "c"} |->
                   IF n = "a" THEN AddGate("b", "c")
                   ELSE IF n = "b" THEN ProductGate("t", "t")
                   ELSE ConstantGate(constant)], NoValues)
     EXCEPT !.output_gate = "a"]

\* circuits of three gates that are not 0 at 0
AlgSquares == {SquarePlus(D(1)), SquarePlus(D(-1))}

InitAlg ==
  /\ \E A \in AlgCircuits \cup AlgSquares :
       /\ A.output_gate \in DOMAIN A.gates \cup {"t", ""}
       /\ \E v \in InitValues \cup {D(-1)} :
            Holds([A EXCEPT !.values = [n \in IntGates(A) |-> v]])
  /\ saved = Circuit
  /\ op = "new"
  /\ ops = 0
  /\ made = <<>>
  /\ pb_int_gates = <<>>

\* A.Derivate()
AlgDerivate == op = "new" /\ Returns(Derivate(Circuit), "Derivate", <<"Derivate">>)

\* the circuits B the binary operations take, besides A itself: t, a circuit
\* with no output, t + 1 on the names a and b, and the exponential on the name a
AlgOperands ==
  {Identity(0),
   NewCircuit(TRUE, 0),
   [SmallCircuit([n \in GateNames |-> IF n = "a" THEN AddGate("b", "t")
                                      ELSE ConstantGate(D(1))], NoValues)
      EXCEPT !.output_gate = "a"],
   [SmallCircuit([n \in {"a"} |-> IntGate("a", "t")], [n \in {"a"} |-> D(1)])
      EXCEPT !.output_gate = "a"]}

\* 1. / x is exact for the value x of the circuit c at 0, if it has one
ExactInverse(c) == computeValue(c, D(0)).ok => HasReciprocal(computeValue(c, D(0)).v)

\* A.Inverse()
AlgInverse ==
  /\ op = "new"
  /\ ExactInverse(Circuit)
  /\ Returns(Inverse(Circuit), "Inverse", <<"Inverse">>)

\* A / B
AlgDivide ==
  /\ op = "new"
  /\ \E B \in AlgOperands \cup {Circuit} :
       /\ ExactInverse(B)
       /\ Returns(Divide(Circuit, B), "operator/", <<"operator/", B>>)

\* the constants of A + c and A * c
AlgConstants == {D(1), D(2)}

\* A + B
AlgPlus ==
  /\ op = "new"
  /\ \E B \in AlgOperands \cup {Circuit} :
       Returns(Plus(Circuit, B), "operator+", <<"operator+", B>>)

\* A * B
AlgTimes ==
  /\ op = "new"
  /\ \E B \in AlgOperands \cup {Circuit} :
       Returns(Times(Circuit, B), "operator*", <<"operator*", B>>)

\* A - B
AlgMinus ==
  /\ op = "new"
  /\ \E B \in AlgOperands \cup {Circuit} :
       Returns(Minus(Circuit, B), "operator-", <<"operator-", B>>)

\* A.Integrate(B, v)
AlgIntegrate ==
  /\ op = "new"
  /\ \E B \in AlgOperands \cup {Circuit}, v \in InitValues :
       Returns(Integrate(Circuit, B, v), "Integrate", <<"Integrate", B, v>>)

\* A(B)
AlgCompose ==
  /\ op = "new"
  /\ \E B \in AlgOperands \cup {Circuit} :
       Returns(Compose(Circuit, B), "operator()", <<"operator()", B>>)

\* A + c
AlgPlusConstant ==
  /\ op = "new"
  /\ \E constant \in AlgConstants :
       Returns(PlusConstant(Circuit, constant), "operator+(T)", <<"operator+(T)", constant>>)

\* A * c
AlgTimesConstant ==
  /\ op = "new"
  /\ \E constant \in AlgConstants :
       Returns(TimesConstant(Circuit, constant), "operator*(T)", <<"operator*(T)", constant>>)

\* A.Iterate(j)
AlgIterate ==
  /\ op = "new"
  /\ \E j \in 0..MaxIter : Returns(Iterate(Circuit, j), "Iterate", <<"Iterate", j>>)

NextAlg ==
  \/ AlgDerivate
  \/ AlgInverse
  \/ AlgDivide
  \/ AlgPlus
  \/ AlgTimes
  \/ AlgMinus
  \/ AlgIntegrate
  \/ AlgCompose
  \/ AlgPlusConstant
  \/ AlgTimesConstant
  \/ AlgIterate

SpecAlg == InitAlg /\ [][NextAlg]_vars

(* ------------------ properties of the algebra of circuits ------------- *)

\* C11: the output of C.Derivate(), C a circuit of Constant, Add and Prod gates
\* and t, evaluates at every t to the derivative of the polynomial of the output
\* of C (the polynomials have a degree of at most 4: the points 0..MaxPoint
\* tell two of them apart), and every input of the derived circuit is t or a
\* gate of it.
C11_DerivateOfPolynomial ==
  (op = "Derivate" /\ PolynomialCircuit(saved)) =>
    /\ err = "ok"
    /\ NamesExist(Circuit)
    /\ \A t_0 \in 0..MaxPoint :
         computeValue(Circuit, D(t_0)) =
           [ok |-> TRUE,
            v |-> PolyEval(PolyDeriv(PolyOf(saved, saved.output_gate)), D(t_0), 1)]

\* the derivative of a polynomial of degree 3 or more has been built
C11_Witness ==
  /\ op = "Derivate"
  /\ PolynomialCircuit(saved)
  /\ Len(PolyOf(saved, saved.output_gate)) >= 4
  /\ err = "ok"

\* the output of c evaluates to 0 at t = 0
ZeroAtZero(c) == computeValue(c, D(0)) = [ok |-> TRUE, v |-> D(0)]

\* C12: Inverse() applied to a circuit A whose output evaluates to 0 at t = 0,
\* and the division by such a circuit, end in an error outcome and produce no
\* result circuit.
C12_InverseOfZeroFails ==
  /\ (op = "Inverse" /\ ZeroAtZero(saved)) => err # "ok"
  /\ (op = "operator/" /\ ZeroAtZero(made[2])) => err # "ok"

\* Inverse() has returned a circuit whose output is an integration gate of the
\* initial value 1. / 0
C12_InfiniteInitValue ==
  /\ op = "Inverse"
  /\ ZeroAtZero(saved)
  /\ err = "ok"
  /\ values[output_gate] = Infinity

\* the composers that take a second circuit, recorded as made[2]
BinaryComposers == {"operator+", "operator*", "operator-", "Integrate", "operator()"}

Composers == BinaryComposers \cup {"operator+(T)", "operator*(T)", "Derivate", "Inverse"}

\* the composer applied last was given a circuit whose output is unset
UnsetOperand ==
  /\ op \in Composers
  /\ saved.output_gate = "" \/ (op \in BinaryComposers /\ made[2].output_gate = "")

\* C13: every composer (A+B, A*B, A+c, A*c, A-B, Integrate, composition,
\* Derivate, Inverse) applied to a circuit whose output is unset ends in the
\* algebra-error outcome, and so produces no circuit with a gate whose input
\* is neither t nor a gate.
C13_UnsetOutputIsAlgebraError == UnsetOperand => err = "algebra_error"

\* a composer has returned a circuit with an input that names nothing, from a
\* circuit whose output is unset
C13_DanglingInput == UnsetOperand /\ err = "ok" /\ ~NamesExist(Circuit)

\* the polynomial p is that of the output of the circuit under construction,
\* and its values at the points 0..1 are those computeValue returns
ComputesPolynomial(p) ==
  /\ err = "ok"
  /\ PolynomialCircuit(Circuit)
  /\ PolyTrim(PolyOf(Circuit, output_gate)) = PolyTrim(p)
  /\ \A t_0 \in 0..1 :
       computeValue(Circuit, D(t_0)) = [ok |-> TRUE, v |-> PolyEval(p, D(t_0), 1)]

RECURSIVE IterateValue(_, _, _)
\* the value at t_0 of the polynomial p applied n times
IterateValue(p, n, t_0) ==
  IF n = 0 THEN t_0 ELSE PolyEval(p, IterateValue(p, n - 1, t_0), 1)

\* the degree of the polynomial p applied n times is at most MaxDegree
SmallIterate(p, n) == Power(Len(PolyTrim(p)) - 1, n) <= MaxDegree

\* the circuit under construction computes the polynomial p applied n times
ComputesIterate(p, n) ==
  /\ err = "ok"
  /\ PolynomialCircuit(Circuit)
  /\ \A t_0 \in -1..1 :
       computeValue(Circuit, D(t_0)) = [ok |-> TRUE, v |-> IterateValue(p, n, D(t_0))]
  /\ SmallIterate(p, n) =>
       PolyTrim(PolyOf(Circuit, output_gate)) = PolyTrim(PolyIterate(p, n))

\* C16: for every circuit C without integration gates and every n >= 0, the
\* output of C.Iterate(n) evaluates at every t to C applied n times to t: at the
\* points -1..1 its value is that of n applications of the polynomial of C, and
\* up to the degree MaxDegree the polynomial of the output of the result is the
\* n-fold composition of that of C.
C16_IterateComposes ==
  (op = "Iterate" /\ PolynomialCircuit(saved)) =>
    ComputesIterate(PolyOf(saved, saved.output_gate), made[2])

\* a polynomial of degree 2 that is negative at 0 has been iterated three times
C16_Witness ==
  /\ op = "Iterate"
  /\ made[2] = 3
  /\ PolynomialCircuit(saved)
  /\ Len(PolyOf(saved, saved.output_gate)) = 3
  /\ computeValue(saved, D(0)) = [ok |-> TRUE, v |-> D(-1)]
  /\ err = "ok"

\* the polynomial A + B, A * B or A - B of the operation `name`
Combined(name, p, q) ==
  IF name = "operator+" THEN PolyAdd(p, q)
  ELSE IF name = "operator*" THEN PolyMul(p, q)
  ELSE PolyAdd(p, PolyMul(<<D(-1)>>, q))

\* the gates of the circuit B are gates of the circuit under construction
KeepsGatesOf(B) == \A n \in DOMAIN B.gates : n \in DOMAIN gates /\ gates[n] = B.gates[n]

\* C17: for all circuits A and B without integration gates and with outputs
\* set, also when they share gate names or are the same circuit, the output of
\* A+B (A*B, A-B) evaluates at every t to A(t)+B(t) (A(t)*B(t), A(t)-B(t)), and
\* no gate of B is overwritten by a gate of A.
C17_SumProductDifference ==
  (/\ op \in {"operator+", "operator*", "operator-"}
   /\ PolynomialCircuit(saved)
   /\ PolynomialCircuit(made[2])) =>
    /\ ComputesPolynomial(Combined(op, PolyOf(saved, saved.output_gate),
                                   PolyOf(made[2], made[2].output_gate)))
    /\ KeepsGatesOf(made[2])

\* A - B has been built from two circuits that share the names of their gates
C17_Witness ==
  /\ op = "operator-"
  /\ PolynomialCircuit(saved)
  /\ PolynomialCircuit(made[2])
  /\ DOMAIN saved.gates = GateNames
  /\ DOMAIN made[2].gates = GateNames
  /\ saved # made[2]
  /\ err = "ok"

(* ----------------------- the counter of fresh names ------------------- *)

\* the names given to the gates that are inserted ("": a fresh name is taken)
CounterNames == {"", "a", "_3", "_12", "a_4294967295", "a_4294967296"}

InitCounter ==
  /\ \E validation_ \in BOOLEAN, id0 \in 0..MaxId : Holds(NewCircuit(validation_, id0))
  /\ saved = Circuit
  /\ op = "new"
  /\ ops = 0
  /\ made = <<>>
  /\ pb_int_gates = <<>>

\* the process is alive
CounterReady == err = "ok" /\ ops < MaxOps

\* addConstantGate(name, 1, validate) and addAddGate(name, "t", "t", validate)
CounterInsert ==
  /\ CounterReady
  /\ \E name \in CounterNames, validate_ \in BOOLEAN :
       \/ Returns(addConstantGate(Circuit, name, D(1), validate_), "addConstantGate", <<name>>)
       \/ Returns(addAddGate(Circuit, name, "t", "t", validate_), "addAddGate", <<name>>)

\* getNewGateName()
CounterFresh ==
  /\ CounterReady
  /\ Returns(SetId(Circuit, Inc32(new_gate_id)), "getNewGateName", <<NextName(Circuit)>>)

\* renameGate(old, new)
CounterRename ==
  /\ CounterReady
  /\ \E old \in DOMAIN gates, new \in CounterNames \ {""} :
       Returns(renameGate(Circuit, old, new), "renameGate", <<new>>)

NextCounter ==
  \/ CounterInsert
  \/ CounterFresh
  \/ CounterRename

SpecCounter == InitCounter /\ [][NextCounter]_vars

\* C18: across gate insertions and fresh-name generations the counter of
\* fresh names, an unsigned of 32 bits, never decreases, and after the
\* insertion of a gate whose name ends in _<k> it is at least k.
C18_CounterMonotone ==
  [][(op' \in {"addConstantGate", "addAddGate", "getNewGateName"} /\ err' = "ok") =>
       /\ ~ULess(new_gate_id', new_gate_id)
       /\ op' # "getNewGateName" => ~ULess(new_gate_id', TrailingId(made'[1]))]_vars

\* the counter has gone from 4294967295 to 0
C18_Wrapped == op = "getNewGateName" /\ saved.id = -1 /\ new_gate_id = 0

(* ------------------------- the dump of toCode ------------------------- *)

\* largest number of operations that build the circuit that is dumped
MaxCodeOps == 3

\* exportName on the characters: cn is circuit_name, g is gate_name
ExportKey(cn, g) ==
  IF g = <<116>> THEN g
  ELSE IF Len(g) < Len(cn) /\ SubSeq(cn, 1, Len(g)) = g THEN g
  ELSE IF g # <<>> /\ Head(g) = 95 THEN cn \o g
  ELSE cn \o <<95>> \o g

\* the name whose characters are key
NameOf(key) == CHOOSE n \in DOMAIN KeyOf : KeyOf[n] = key

exportName(circuit_name, gate_name) == NameOf(ExportKey(KeyOf[circuit_name], KeyOf[gate_name]))

RECURSIVE Pow(_, _)
Pow(b, k) == IF k = 0 THEN 1 ELSE b * Pow(b, k - 1)

RECURSIVE DigitCount(_)
\* the number of decimal digits of m > 0
DigitCount(m) == IF m < 10 THEN 1 ELSE 1 + DigitCount(m \div 10)

RECURSIVE StripZeros(_, _)
\* m * 10^x without the trailing zeros of m
StripZeros(m, x) ==
  IF m = 0 THEN <<0, 0>>
  ELSE IF m % 10 = 0 THEN StripZeros(m \div 10, x + 1) ELSE <<m, x>>

\* q, or q + 1, for the remainder r of the division by p: to nearest, ties to even
RoundFrom(q, r, p) == IF 2 * r > p \/ (2 * r = p /\ q % 2 = 1) THEN q + 1 ELSE q

\* m * 10^x, m > 0 of d digits, cut to 6 significant digits
CutTo6(m, x, d) ==
  IF d <= 6 THEN StripZeros(m, x)
  ELSE StripZeros(RoundFrom(m \div Pow(10, d - 6), m % Pow(10, d - 6), Pow(10, d - 6)),
                  x + d - 6)

\* the decimal of sign s and digits m * 10^x that a stream of precision 6 writes
PrintedOf(s, m, x) ==
  IF m = 0 THEN <<0, 0>>
  ELSE <<s * CutTo6(m, x, DigitCount(m))[1], CutTo6(m, x, DigitCount(m))[2]>>

\* res << v : the value n / 2^e is n * 5^e / 10^e
Printed(v) ==
  PrintedOf(IF v[1] < 0 THEN -1 ELSE 1, DAbs(v[1]) * Pow(5, v[2]), -v[2])

\* the double that the literal m * 10^x denotes: the number itself when it is
\* a double, else the double nearest to it, which is none of the numbers n / 2^e
\* that a literal of 6 digits writes
Parsed(dec) ==
  IF dec[2] >= 0 THEN D(dec[1] * Pow(10, dec[2]))
  ELSE IF dec[1] % Pow(5, -dec[2]) = 0
  THEN DNorm(<<dec[1] \div Pow(5, -dec[2]), -dec[2]>>)
  ELSE <<dec[1], dec[2], "nearest">>

\* the line of toCode for the gate n of c
Declaration(c, circuit_name, n) ==
  [name |-> exportName(circuit_name, n),
   kind |-> c.gates[n].kind,
   X |-> IF c.gates[n].kind = "Const" THEN "" ELSE exportName(circuit_name, c.gates[n].X),
   Y |-> IF c.gates[n].kind = "Const" THEN "" ELSE exportName(circuit_name, c.gates[n].Y),
   c |-> Printed(c.gates[n].c)]

RECURSIVE Declarations(_, _, _)
\* for (const auto &g : gates): the lines of the gates names, in this order
Declarations(c, circuit_name, names) ==
  IF names = <<>> THEN <<>>
  ELSE <<Declaration(c, circuit_name, Head(names))>>
         \o Declarations(c, circuit_name, Tail(names))

RECURSIVE InitLines(_, _, _)
\* the lines circuit.setInitValue(name, value) of the gates names
InitLines(c, circuit_name, names) ==
  IF names = <<>> THEN <<>>
  ELSE <<[name |-> exportName(circuit_name, Head(names)),
          c |-> Printed(c.values[Head(names)])]>>
         \o InitLines(c, circuit_name, Tail(names))

\* toCode()
toCode(c, circuit_name) ==
  [gates |-> Declarations(c, circuit_name, InOrder(DOMAIN c.gates)),
   output |-> exportName(circuit_name, c.output_gate),
   inits |-> InitLines(c, circuit_name,
                       InOrder({n \in IntGates(c) : n \in DOMAIN c.values}))]

\* circuit(name, value) and circuit(name, op, x, y)
Declare(r, d) ==
  IF d.kind = "Const" THEN addConstantGate(r, d.name, Parsed(d.c), TRUE)
  ELSE IF d.kind = "Add" THEN addAddGate(r, d.name, d.X, d.Y, TRUE)
  ELSE IF d.kind = "Prod" THEN addProductGate(r, d.name, d.X, d.Y, TRUE)
  ELSE addIntGate(r, d.name, d.X, d.Y, TRUE)

RECURSIVE DeclareAll(_, _)
DeclareAll(r, ds) == IF ds = <<>> THEN r ELSE DeclareAll(Declare(r, Head(ds)), Tail(ds))

RECURSIVE SetInitValues(_, _)
SetInitValues(r, ls) ==
  IF ls = <<>> THEN r
  ELSE SetInitValues(setInitValue(r, Head(ls).name, Parsed(Head(ls).c)), Tail(ls))

\* the circuit that the statements of code make of the new circuit r
ReadCode(r, code) ==
  SetInitValues(setOutput(DeclareAll(r, code.gates), code.output), code.inits)

CodeCircuitNames == {"", "c", "ab"}
CodeGateNames == {"a", "b", "1", ""}
CodeInputs == {"a", "1", "t"}
\* 1, -1 and 2^-9 = 0.001953125
CodeValues == {D(1), D(-1), <<1, 9>>}

\* GPAC(circuit_name, true), the counter of fresh names being at 0
InitCode ==
  /\ Holds(NewCircuit(TRUE, 0))
  /\ \E circuit_name \in CodeCircuitNames : made = <<circuit_name>>
  /\ saved = Circuit
  /\ op = "new"
  /\ ops = 0
  /\ pb_int_gates = <<>>

\* the circuit is still being built
CodeReady == err = "ok" /\ ops < MaxCodeOps /\ op # "toCode"

CodeAddConstant ==
  /\ CodeReady
  /\ \E n \in CodeGateNames, v \in CodeValues :
       Returns(addConstantGate(Circuit, n, v, TRUE), "addConstantGate", made)

CodeAddBinary ==
  /\ CodeReady
  /\ \E n \in CodeGateNames, x \in CodeInputs :
       \/ Returns(addAddGate(Circuit, n, x, "t", TRUE), "addAddGate", made)
       \/ Returns(addProductGate(Circuit, n, x, x, TRUE), "addProductGate", made)
       \/ Returns(addIntGate(Circuit, n, x, "t", TRUE), "addIntGate", made)

CodeSetOutput ==
  /\ CodeReady
  /\ \E n \in CodeInputs : Returns(setOutput(Circuit, n), "setOutput", made)

CodeSetInitValue ==
  /\ CodeReady
  /\ \E n \in IntGates(Circuit), v \in CodeValues :
       Returns(setInitValue(Circuit, n, v), "setInitValue", made)

\* the output of toCode() is read by a new circuit: the model's circuit becomes
\* the circuit read, saved is the circuit that was dumped
CodeDump ==
  /\ err = "ok"
  /\ op # "toCode"
  /\ \E validation_ \in BOOLEAN :
       Returns(ReadCode(NewCircuit(validation_, new_gate_id), toCode(Circuit, made[1])),
               "toCode", made)

NextCode ==
  \/ CodeAddConstant
  \/ CodeAddBinary
  \/ CodeSetOutput
  \/ CodeSetInitValue
  \/ CodeDump

SpecCode == InitCode /\ [][NextCode]_vars

\* the gate g with its inputs renamed by exportName
ExportedGate(circuit_name, g) ==
  IF g.kind = "Const" THEN g
  ELSE [g EXCEPT !.X = exportName(circuit_name, g.X), !.Y = exportName(circuit_name, g.Y)]

\* r is c up to the renaming exportName, which is one-to-one on the gates of c
SameUpToExport(c, circuit_name, r) ==
  /\ r.err = "ok"
  /\ Cardinality(DOMAIN r.gates) = Cardinality(DOMAIN c.gates)
  /\ \A n \in DOMAIN c.gates : \A m \in DOMAIN c.gates :
       n # m => exportName(circuit_name, n) # exportName(circuit_name, m)
  /\ \A n \in DOMAIN c.gates :
       /\ exportName(circuit_name, n) \in DOMAIN r.gates
       /\ r.gates[exportName(circuit_name, n)] = ExportedGate(circuit_name, c.gates[n])
  /\ r.output_gate = exportName(circuit_name, c.output_gate)
  /\ \A n \in IntGates(c) :
       IF n \in DOMAIN c.values
       THEN /\ exportName(circuit_name, n) \in DOMAIN r.values
            /\ r.values[exportName(circuit_name, n)] = c.values[n]
       ELSE exportName(circuit_name, n) \notin DOMAIN r.values

\* C21: the circuit read from the output of toCode(C) has the number of gates
\* of C, its kinds of gates, its graph up to the renaming exportName, which
\* maps distinct gates to distinct names, its output and its init values.
C21_CodeRoundTrip == op = "toCode" => SameUpToExport(saved, made[1], Circuit)

\* two gates of the dumped circuit are written under one name
C21_NamesCollide ==
  /\ op = "toCode"
  /\ \E n \in DOMAIN saved.gates : \E m \in DOMAIN saved.gates :
       n # m /\ exportName(made[1], n) = exportName(made[1], m)

(* ------------------------ the simulation, step by step ---------------- *)

\* the step dt of the simulation: 1/2
SimStep == <<1, 1>>

\* resetNonIntValues()
resetNonIntValues(c) ==
  [c EXCEPT !.values =
     [n \in {k \in DOMAIN c.values :
               ~(has(c, k) /\ ~isIntGate(c, k) /\ ~isConstantGate(c, k))} |-> c.values[n]]]

\* initValues()
initValues(c) ==
  [c EXCEPT !.values =
     [n \in DOMAIN c.values \cup {k \in DOMAIN c.gates : isConstantGate(c, k)} |->
        IF has(c, n) /\ isConstantGate(c, n) THEN c.gates[n].c ELSE c.values[n]]]

\* values[key], which inserts T() under a key that is not in the table
ReadValue(vals, key) == IF key \in DOMAIN vals THEN vals[key] ELSE D(0)
AfterRead(vals, key) == IF key \in DOMAIN vals THEN vals ELSE Put(vals, key, D(0))

RECURSIVE ReadAll(_, _)
\* for (i...) y[i] = values[int_gates[i]]: the table after the reads
ReadAll(vals, keys) ==
  IF keys = <<>> THEN vals ELSE ReadAll(AfterRead(vals, Head(keys)), Tail(keys))

\* computeValues(t_0), the table being the one ODE has prepared
computeValues(c, t_0) ==
  SimulateValues(c, Propagate(c.gates, Put(c.values, "t", t_0)))

\* the time and the factor of dt of the four evaluations of a step of
\* runge_kutta4: y is x, x + dt/2 k1, x + dt/2 k2, x + dt k3
StageTime(stage) == IF stage <= 1 THEN D(0) ELSE IF stage = 4 THEN SimStep ELSE DHalf(SimStep)
StageFactor(stage) == IF stage = 4 THEN SimStep ELSE DHalf(SimStep)

\* the circuits that are finalized
SimBases ==
  [Exp |-> Exp(0), Sin |-> Sin(0), Ramp |-> Ramp,
   Loop |-> setOutput(setInitValue(addIntGate(addAddGate(NewCircuit(TRUE, 0),
                                                         "a", "t", "a", TRUE),
                                              "b", "a", "t", TRUE),
                                   "b", D(0)),
                      "b")]

\* no simulation is running
Idle == [pc |-> "idle", stage |-> 0, x |-> <<>>, y |-> <<>>, dydt |-> <<>>,
         done |-> {}, inserted |-> {}, stale |-> FALSE]

\* a circuit after finalize()
InitSim ==
  /\ \E m \in DOMAIN SimBases : \E c \in finalize(SimBases[m], TRUE) : Holds(c)
  /\ saved = Circuit
  /\ made = Idle
  /\ op = "finalize"
  /\ ops = 0
  /\ pb_int_gates = <<>>

\* the state of the circuit becomes that of c, the simulation that of m
SimBecomes(c, name, m) ==
  /\ gates' = c.gates
  /\ output_gate' = c.output_gate
  /\ values' = c.values
  /\ validation' = c.validation
  /\ finalized' = c.finalized
  /\ int_gates' = c.int_gates
  /\ new_gate_id' = c.id
  /\ err' = c.err
  /\ op' = name
  /\ made' = m
  /\ UNCHANGED pb_int_gates

\* one operation that does not reset finalized, before the simulation
SimChange ==
  /\ made.pc = "idle" /\ ops = 0 /\ err = "ok"
  /\ ops' = 1
  /\ saved' = Circuit
  /\ \/ \E n \in DOMAIN gates :
          SimBecomes(eraseGate(Circuit, n), "eraseGate", [made EXCEPT !.stale = TRUE])
     \/ \E old \in DOMAIN gates :
          SimBecomes(renameInputs(Circuit, old, "a"), "renameInputs",
                     [made EXCEPT !.stale = TRUE])
     \/ \E old \in DOMAIN gates :
          SimBecomes(renameGate(Circuit, old, "a"), "renameGate",
                     [made EXCEPT !.stale = TRUE])

\* the simulation, about to start the parallel loop that writes y into values
Started(vals, m) ==
  [m EXCEPT !.pc = "write", !.stage = 1,
            !.x = [i \in DOMAIN int_gates |-> ReadValue(vals, int_gates[i])],
            !.y = [i \in DOMAIN int_gates |-> ReadValue(vals, int_gates[i])],
            !.dydt = [i \in DOMAIN int_gates |-> D(0)]]

\* Simulate(0, dt, dt) up to the first call of ODE, and its resetNonIntValues()
SimulateFrom(c, m) ==
  IF ~c.finalized THEN SimBecomes(Fail(c, "not_finalized"), "Simulate", m)
  ELSE SimBecomes(resetNonIntValues([c EXCEPT !.values = ReadAll(c.values, c.int_gates)]),
                  "Simulate", Started(c.values, m))

SimStart ==
  /\ made.pc \in {"idle", "done"} /\ err = "ok" /\ ops < 3
  /\ ops' = ops + 1
  /\ saved' = Circuit
  /\ SimulateFrom(initValues(Circuit), [made EXCEPT !.done = {}, !.inserted = {}])

\* what an insertion into the table does while other iterations use it
RacedInsert(c, inserts) ==
  IF ~inserts \/ Len(c.int_gates) < 2 THEN {c} ELSE {c, Fail(c, "crash")}

\* one iteration of the first loop of ODE: values[int_gates[i]] = y[i]
SimWrite ==
  /\ made.pc = "write" /\ err = "ok"
  /\ UNCHANGED <<ops, saved>>
  /\ \E i \in DOMAIN int_gates \ made.done :
       \E c \in RacedInsert([Circuit EXCEPT !.values = Put(values, int_gates[i], made.y[i])],
                            int_gates[i] \notin DOMAIN values) :
         SimBecomes(c, "ODE write",
                    [made EXCEPT !.done = @ \cup {i},
                                 !.inserted = @ \cup ({int_gates[i]} \ DOMAIN values)])

\* computeValues(t) between the two loops
SimCompute ==
  /\ made.pc = "write" /\ err = "ok" /\ made.done = DOMAIN int_gates
  /\ UNCHANGED <<ops, saved>>
  /\ SimBecomes(computeValues(Circuit, StageTime(made.stage)), "computeValues",
                [made EXCEPT !.pc = "read", !.done = {}])

\* computeValues(0), called on the finalized circuit outside a simulation
SimComputeAlone ==
  /\ made.pc = "idle" /\ err = "ok" /\ finalized
  /\ UNCHANGED <<ops, saved>>
  /\ SimBecomes(computeValues(Circuit, D(0)), "computeValues", [made EXCEPT !.pc = "done"])

\* asIntGate(int_gates[i])->X(): gates.at throws when the gate is absent, the
\* cast gives a null pointer when it is not an integration gate
ReadInput(c, m, i) ==
  IF ~has(c, c.int_gates[i]) THEN {<<Fail(c, "out_of_range"), m>>}
  ELSE IF ~isIntGate(c, c.int_gates[i]) THEN {<<Fail(c, "crash"), m>>}
  ELSE {<<r, [m EXCEPT !.dydt[i] = ReadValue(c.values, c.gates[c.int_gates[i]].X),
                       !.done = @ \cup {i},
                       !.inserted = @ \cup ({c.gates[c.int_gates[i]].X} \ DOMAIN c.values)]>> :
          r \in RacedInsert([c EXCEPT !.values = AfterRead(c.values,
                                                          c.gates[c.int_gates[i]].X)],
                            c.gates[c.int_gates[i]].X \notin DOMAIN c.values)}

\* one iteration of the second loop of ODE: dydt[i] = values[gate->X()]
SimRead ==
  /\ made.pc = "read" /\ err = "ok"
  /\ UNCHANGED <<ops, saved>>
  /\ \E i \in DOMAIN int_gates \ made.done :
       \E r \in ReadInput(Circuit, made, i) : SimBecomes(r[1], "ODE read", r[2])

\* ODE returns: the stepper calls it again with the next y, or Simulate returns
SimNext ==
  /\ made.pc = "read" /\ err = "ok" /\ made.done = DOMAIN int_gates
  /\ UNCHANGED <<ops, saved>>
  /\ IF made.stage = 4
     THEN SimBecomes(Circuit, "Simulate returns", [made EXCEPT !.pc = "done", !.done = {}])
     ELSE SimBecomes(resetNonIntValues(Circuit), "ODE",
                     [made EXCEPT !.pc = "write", !.done = {}, !.stage = @ + 1,
                                  !.y = [i \in DOMAIN int_gates |->
                                           DAdd(made.x[i],
                                                DMul(StageFactor(made.stage + 1),
                                                     made.dydt[i]))]])

NextSim ==
  \/ SimChange
  \/ SimStart
  \/ SimWrite
  \/ SimCompute
  \/ SimComputeAlone
  \/ SimRead
  \/ SimNext

SpecSim == InitSim /\ [][NextSim]_vars

\* C22: in ODE on a finalized circuit, whatever the order of the iterations of
\* each of the two parallel loops, no two iterations write the same key of
\* values (int_gates has no duplicates) and no iteration inserts a key.
C22_DisjointKeys ==
  made.pc \in {"write", "read", "done"} =>
    /\ \A i \in DOMAIN int_gates : \A j \in DOMAIN int_gates :
         i # j => int_gates[i] # int_gates[j]
    /\ made.inserted = {}

\* an iteration of the second loop has inserted the input of its gate
C22_InsertedInput == made.pc = "read" /\ made.inserted # {} /\ Len(int_gates) = 2

\* the addition and product gates of gs
AlgebraicGates(gs) == {n \in DOMAIN gs : gs[n].kind \in {"Add", "Prod"}}

\* the addition and product gates that are inputs of the gates of S
AlgebraicInputs(gs, S) ==
  {m \in AlgebraicGates(gs) : \E n \in S : m \in {gs[n].X, gs[n].Y}}

RECURSIVE AlgebraicBelow(_, _)
\* the addition and product gates reached from the inputs of the gates of S
\* through addition and product gates
AlgebraicBelow(gs, S) ==
  IF AlgebraicInputs(gs, S) \subseteq S THEN S
  ELSE AlgebraicBelow(gs, S \cup AlgebraicInputs(gs, S))

\* the addition or product gate n is on a cycle of addition and product gates
OnAlgebraicCycle(gs, n) == n \in AlgebraicBelow(gs, AlgebraicInputs(gs, {n}))

\* the addition or product gate n depends on such a cycle
DependsOnCycle(gs, n) ==
  \E m \in AlgebraicBelow(gs, {n}) : OnAlgebraicCycle(gs, m)

\* g applied to the values a and b, when both are known
ApplyKnown(g, a, b) == IF a = <<>> \/ b = <<>> THEN <<>> ELSE Apply(g, a, b)

RECURSIVE ExprValue(_, _, _, _)
\* the value of the expression of the gate n over t, the constants and the
\* values of the integration gates, <<>> if it has none within depth gates
ExprValue(gs, vals, n, depth) ==
  IF n = "t" THEN vals["t"]
  ELSE IF n \notin DOMAIN gs THEN <<>>
  ELSE IF gs[n].kind = "Const" THEN gs[n].c
  ELSE IF gs[n].kind = "Int" THEN vals[n]
  ELSE IF depth = 0 THEN <<>>
  ELSE ApplyKnown(gs[n], ExprValue(gs, vals, gs[n].X, depth - 1),
                  ExprValue(gs, vals, gs[n].Y, depth - 1))

RECURSIVE Sweeps(_, _)
\* the number of times the body of while (changed) is run from the table vals
Sweeps(gs, vals) ==
  IF PropagatePass(gs, vals, InOrder(DOMAIN gs)) = vals THEN 1
  ELSE 1 + Sweeps(gs, PropagatePass(gs, vals, InOrder(DOMAIN gs)))

\* the table computeValues started from, seen from the table it has left
BeforePropagation(gs, vals, t_0) ==
  Put([n \in DOMAIN vals \ AlgebraicGates(gs) |-> vals[n]], "t", t_0)

\* C23: computeValues, called on a finalized circuit, ends after at
\* most one sweep per gate and one more; it ends in the error "Failed to
\* compute values" exactly when an addition or product gate depends on a cycle
\* of addition and product gates, and otherwise every gate has the value of its
\* expression over t, the constants and the values of the integration gates.
C23_PropagationFailsOnCycles ==
  op = "computeValues" =>
    /\ Sweeps(gates, BeforePropagation(gates, values, StageTime(made.stage)))
         <= Cardinality(DOMAIN gates) + 1
    /\ (err = "no_value") <=> (\E n \in AlgebraicGates(gates) : DependsOnCycle(gates, n))
    /\ err = "ok" =>
         \A n \in DOMAIN gates :
           /\ n \in DOMAIN values
           /\ values[n] = ExprValue(gates, values, n, Cardinality(DOMAIN gates))

\* computeValues has failed on a circuit without a cycle, which finalize()
\* was the last to change
C23_FailedWithoutCycle ==
  /\ op = "computeValues"
  /\ err = "no_value"
  /\ ~made.stale
  /\ \A n \in AlgebraicGates(gates) : ~DependsOnCycle(gates, n)

\* computeValues has failed on the cycle of a circuit that finalize() accepted
C23_FailedOnCycle ==
  /\ op = "computeValues"
  /\ err = "no_value"
  /\ ~made.stale
  /\ OnAlgebraicCycle(gates, "a")

(* ----------------------- what simplify() leaves ------------------------ *)

\* the gates n and m of c are two gates that simplify() takes for equal: two
\* additions or two products with identical inputs, two integration gates with
\* identical inputs and equal initial values, two constants of equal value
EqualGates(c, n, m) ==
  /\ c.gates[n].kind = c.gates[m].kind
  /\ IF isConstantGate(c, n) THEN c.gates[n].c = c.gates[m].c
     ELSE /\ SameInputs(c, n, m)
          /\ isIntGate(c, n) =>
               (n \in DOMAIN c.values /\ m \in DOMAIN c.values /\ c.values[n] = c.values[m])

\* no two distinct gates of c are equal gates
NoEqualGates(c) ==
  \A n \in DOMAIN c.gates : \A m \in DOMAIN c.gates \ {n} : ~EqualGates(c, n, m)

\* the input x of a gate of `before`, as `after` can name it: itself, or any
\* gate when x has been erased
NamedAs(after, x, y) == x = y \/ ~has(after, x)

\* the integration gate n of `before`, linked to its output, is not in `after`:
\* it has been merged into m
MergedInto(before, after, n, m) ==
  /\ has(before, m) /\ isIntGate(before, m)
  /\ has(after, m) /\ isIntGate(after, m)
  /\ n \in DOMAIN before.values
  /\ m \in DOMAIN before.values
  /\ before.values[n] = before.values[m]
  /\ NamedAs(after, before.gates[n].X, after.gates[m].X)
  /\ NamedAs(after, before.gates[n].Y, after.gates[m].Y)

\* the integration gates of `before` that simplify() has merged into another:
\* those linked to the output that are not in `after`
MergedIntGates(before, after) ==
  IF ~has(before, before.output_gate) THEN {}
  ELSE {n \in IntGates(before) \cap Linked(before, {before.output_gate}) : ~has(after, n)}

Reachable(c) == IF has(c, c.output_gate) THEN Linked(c, {c.output_gate}) ELSE {}

\* the gate n of `before` has in `after` the equivalent survivor m: a constant
\* of the same value, or a gate of the same kind with the same inputs, up to
\* the order of the inputs of an addition or a product
EquivalentSurvivor(before, after, n, m) ==
  /\ has(after, m)
  /\ after.gates[m].kind = before.gates[n].kind
  /\ IF isConstantGate(before, n) THEN after.gates[m].c = before.gates[n].c
     ELSE \/ /\ NamedAs(after, before.gates[n].X, after.gates[m].X)
             /\ NamedAs(after, before.gates[n].Y, after.gates[m].Y)
          \/ /\ ~isIntGate(before, n)
             /\ NamedAs(after, before.gates[n].X, after.gates[m].Y)
             /\ NamedAs(after, before.gates[n].Y, after.gates[m].X)

\* simplify() has left `after` of `before`: the gates are those reachable from
\* the output, the output is a gate, and every reachable gate of `before`, its
\* constants folded, is in `after` or has an equivalent survivor
KeepsReachable(before, after) ==
  /\ DOMAIN after.gates = Reachable(after)
  /\ has(after, after.output_gate)
  /\ \A n \in Reachable(FoldConstants(before, InOrder(DOMAIN before.gates))) :
       \/ has(after, n)
       \/ \E m \in DOMAIN after.gates :
            EquivalentSurvivor(FoldConstants(before, InOrder(DOMAIN before.gates)),
                               after, n, m)

SplitsGate(c, gate_name) ==
  /\ has(c, YOf(c, gate_name))
  /\ ~YIsNormalizedInt(c, gate_name)
  /\ isProductGate(c, YOf(c, gate_name)) \/ isAddGate(c, YOf(c, gate_name))
  /\ isCombinationConstantGates(c, XOf(c, YOf(c, gate_name))) = "false"
  /\ isCombinationConstantGates(c, YOf(c, YOf(c, gate_name))) = "false"

\* the gate i of `after` is a fresh integration gate with half the init value
\* that gate_name has in `before`, when it has one
FreshHalf(before, after, gate_name, i) ==
  /\ ~has(before, i)
  /\ has(after, i) /\ isIntGate(after, i)
  /\ gate_name \in DOMAIN before.values =>
       (i \in DOMAIN after.values /\ after.values[i] = DHalf(before.values[gate_name]))

\* the iteration on gate_name has made `after` of `before`
InitValuesFollow(before, after, gate_name) ==
  IF SplitsGate(before, gate_name)
  THEN /\ isAddGate(after, gate_name)
       /\ XOf(after, gate_name) # YOf(after, gate_name)
       /\ FreshHalf(before, after, gate_name, XOf(after, gate_name))
       /\ FreshHalf(before, after, gate_name, YOf(after, gate_name))
  ELSE /\ has(after, gate_name) /\ isIntGate(after, gate_name)
       /\ gate_name \in DOMAIN before.values =>
            (gate_name \in DOMAIN after.values
               /\ after.values[gate_name] = before.values[gate_name])

C26_RewrittenInPlace ==
  /\ op = "normalize_loop" /\ err = "ok"
  /\ \E g \in IntGates(saved) \cap DOMAIN saved.values :
       /\ isIntGate(Circuit, g)
       /\ gates[g] # saved.gates[g]
       /\ values[g] = saved.values[g]

(* ----------------------- the order of the work list -------------------- *)

\* the class of the pending integration gate n: 1 when its second input is an
\* integration gate whose second input is t (Case 1), 2 when it is a product
\* (Case 2), 3 when it is an addition (Case 3), 4 otherwise
ClassOf(c, n) ==
  IF ~has(c, YOf(c, n)) THEN 4
  ELSE IF YIsNormalizedInt(c, n) THEN 1
  ELSE IF isProductGate(c, YOf(c, n)) THEN 2
  ELSE IF isAddGate(c, YOf(c, n)) THEN 3
  ELSE 4

\* the pending gate x is taken before the pending gate y
TakenBefore(c, x, y) ==
  \/ ClassOf(c, x) < ClassOf(c, y)
  \/ ClassOf(c, x) = ClassOf(c, y) /\ ~StrLess(y, x)

\* the loop of normalize() is about to take the top of its queue
TakesNext == op = "normalize_loop" /\ err = "ok" /\ pb_int_gates # <<>>

\* C27: the gate the loop of normalize() takes next is a pending gate whose
\* second input is a normalized integration gate if there is one, else one
\* whose second input is a product, else one whose second input is an
\* addition, and among the pending gates of the same class it is the one of the
\* lexicographically smallest name.
C27_WorkListOrder ==
  TakesNext => \A m \in Range(pb_int_gates) : TakenBefore(Circuit, pb_int_gates[1], m)

\* the order of the classes alone, without the order of the names
C27_ClassOrder ==
  TakesNext =>
    \A m \in Range(pb_int_gates) : ClassOf(Circuit, pb_int_gates[1]) <= ClassOf(Circuit, m)

(* ----------------------- simplify() applied twice ---------------------- *)

\* the additions n and m of c, or the products n and m, have the same unordered
\* pair of inputs
SamePair(c, n, m) ==
  /\ c.gates[n].kind = c.gates[m].kind
  /\ c.gates[n].kind \in {"Add", "Prod"}
  /\ {c.gates[n].X, c.gates[n].Y} = {c.gates[m].X, c.gates[m].Y}
  /\ \/ c.gates[n].X = c.gates[m].X /\ c.gates[n].Y = c.gates[m].Y
     \/ c.gates[n].X = c.gates[m].Y /\ c.gates[n].Y = c.gates[m].X

\* no two distinct additions and no two distinct products of c have the same
\* unordered pair of inputs
NoSamePair(c) ==
  \A n \in DOMAIN c.gates : \A m \in DOMAIN c.gates \ {n} : ~SamePair(c, n, m)

\* simplify() has returned on a circuit that is not finalized
Simplified == op = "simplify" /\ err = "ok" /\ ~finalized

\* C28: simplify() reaches a fixpoint: applied again to the result of
\* simplify(), which is not finalized, it erases no gate and changes no input
\* of a gate, and after simplify() no two distinct additions and no two distinct
\* products have the same unordered pair of inputs.
C28_SimplifyFixpoint ==
  Simplified =>
    /\ NoSamePair(Circuit)
    /\ \A r \in simplify(Circuit) : r.err = "ok" /\ r.gates = gates

\* simplify() has left two additions, or two products, with the same inputs in
\* different orders
C28_SwappedInputs == Simplified /\ ~NoSamePair(Circuit)

(* ------------------- the init values after Simulate ------------------- *)

\* C29: Simulate(a, b, dt) on a finalized circuit leaves the stored init value
\* of every integration gate as it was before the call, so that a second
\* Simulate with the same arguments starts from the same state vector.
C29_SimulateKeepsInitValues ==
  op = "Simulate returns" =>
    \A n \in IntGates(saved) \cap DOMAIN saved.values :
      n \in DOMAIN values /\ values[n] = saved.values[n]

\* Simulate has returned on a circuit that finalize() was the last to change,
\* and the value stored for its first integration gate is not the one before
\* the call: it is the last y that the stepper has given to ODE
C29_LastStageStored ==
  /\ op = "Simulate returns" /\ ~made.stale
  /\ values[int_gates[1]] # saved.values[int_gates[1]]
  /\ values[int_gates[1]] = made.y[1]

\* the second Simulate starts from a state vector that is not the init values
\* finalize() has left
C29_SecondStartDiffers ==
  /\ op = "Simulate" /\ ops = 2 /\ ~made.stale /\ err = "ok"
  /\ \A m \in DOMAIN SimBases : \A c \in finalize(SimBases[m], TRUE) :
       c.gates = gates => made.x[1] # c.values[int_gates[1]]

(* --------------------------- the fresh names -------------------------- *)

\* the step generates a fresh name: getNewGateName() is called, by itself or by
\* the insertion of a gate of omitted name
GeneratesName ==
  /\ err' = "ok"
  /\ \/ op' = "getNewGateName"
     \/ op' \in {"addConstantGate", "addAddGate"} /\ made'[1] = ""

\* C30: whenever a fresh name is generated for a circuit, after any sequence
\* of public operations, that name is not already the name of a gate of the
\* circuit.
C30_FreshNameIsNew ==
  [][GeneratesName => ~has(Circuit, NextName(Circuit))]_vars

\* a gate renamed into _3 when the counter was at 2, and getNewGateName() has
\* answered _3
C30_RenamedIntoFresh ==
  /\ op = "getNewGateName"
  /\ made = <<"_3">>
  /\ has(Circuit, "_3")
  /\ new_gate_id = 3

====
